---- MODULE Spec2Model ----
(***************************************************************************)
(* Model of the bouncer ingest pipeline: the on-disk spool                 *)
(* (incoming -> processing -> done/failed), its producers (TCP frame loop, *)
(* local delivery hook, files dropped by other processes), the dispatcher  *)
(* (notify watcher, periodic scan, bounded workers) and process crashes.   *)
(***************************************************************************)
EXTENDS Integers, Sequences, FiniteSets, TLC

VARIABLES
    files,      \* the spool: set of [dir, name, data, synced]
    nextId,     \* number of unique ids (Uuid::now_v7 / hook base names) used
    dropped,    \* names other processes have already placed in incoming/
    payloadOf,  \* id -> payload handed to the enqueue that owns this id
    conn,       \* per connection: state of handle_client
    hook,       \* state of the bounce-delivery process
    watcherUp,  \* RecommendedWatcher::new + watch succeeded
    events,     \* paths carried by pending notify events
    queue,      \* bounded mpsc channel of paths (process_tx / process_rx)
    scan,       \* state of spawn_periodic_scan
    worker,     \* per worker: state of the worker loop
    procLog,    \* history: the n-th read/parse/upsert of a file in a run
    dbOps,      \* number of committed database transactions
    enqFailed,  \* history: ids whose enqueue returned an error
    epoch,      \* number of crashes so far
    orphaned,   \* names found in processing/ when the process crashed
    srv,        \* state of run_tcp_server (the accept loop)
    db,         \* the database: its three tables and NOW()
    tx,         \* per database task: the open transaction
    wire,       \* a byte stream between write_frame and read_frame
    reader,     \* position and results of the reader of that stream
    probe,      \* an argument and the result of map_mail_message_status
    imap,       \* one iteration of the IMAP poll loop and its mailbox
    obs,        \* the observer's listener: queue-id map, clock, channel
    pub,        \* the observer's publisher and its connection
    sd          \* the daemon's tasks and its cancellation token

\* What the ingest server's tasks never touch
ext == <<imap, obs, pub, sd>>

\* What the spool and its dispatcher never touch
aux == <<srv, db, tx, wire, reader, probe, ext>>

vars == <<files, nextId, dropped, payloadOf, conn, hook, watcherUp, events,
          queue, scan, worker, procLog, dbOps, enqFailed, epoch, orphaned,
          aux>>

----------------------------------------------------------------------------
\* Configuration: worker_concurrency and process_queue_per_worker

WorkerConcurrency == 2
ProcessQueuePerWorker == 1

\* Bounds of the model

MaxIds == 1
MaxFrames == 2
MaxCrashes == 1
MaxWireFrames == 2

\* Database transactions begun in one run
MaxTx == 2

\* Messages in the polled mailbox
MaxUids == 2

\* Program constants

MAX_HEADER_LEN == 65536
MAX_BODY_LEN == 26214400
MAGIC == "BNCE"
ACK == "OK\n"

----------------------------------------------------------------------------
\* Paths.  A file name is the sequence of its '.'-separated components, so
\* "u1.eml.tmp" is <<"u1","eml","tmp">> and ".b.tmp" is <<"","b","tmp">>.

Dirs == {"incoming", "processing", "done", "failed"}

IdStr == <<"u1", "u2", "u3", "u4", "u5", "u6">>

Ids == 1..MaxIds

\* format!("{id}.eml") / format!("{id}.eml.tmp")
SpoolFileName(id) == <<IdStr[id], "eml">>
SpoolTmpName(id) == <<IdStr[id], "eml", "tmp">>

\* format!("{base}.eml") / format!(".{base}.tmp")
HookFinalName(id) == <<IdStr[id], "eml">>
HookTmpName(id) == <<"", IdStr[id], "tmp">>

\* Files that other programs leave in incoming/
ExternalNames == {<<"ignore", "txt">>, <<"", "h", "eml">>}

AllNames == ExternalNames
            \cup {SpoolFileName(i) : i \in 1..6}
            \cup {SpoolTmpName(i) : i \in 1..6}
            \cup {HookTmpName(i) : i \in 1..6}

\* Path::extension: the part after the last '.', none when the name has no
\* '.' or when its only '.' is the leading one.
Extension(name) ==
    IF Len(name) <= 1 THEN "none"
    ELSE IF Len(name) = 2 /\ name[1] = "" THEN "none"
    ELSE name[Len(name)]

is_eml_file(name) == Extension(name) = "eml"

BeginsWithDot(name) == name[1] = ""

EndsWithEml(name) == Len(name) >= 2 /\ name[Len(name)] = "eml"

----------------------------------------------------------------------------
\* Mail payloads.  A payload is a sequence of abstract segments:
\*   "D"  a message/delivery-status part carrying a Status: field
\*   "O"  an original-headers / rfc822 part carrying the outbound Message-ID
\*   "M"  text with a delivery-report marker but no status field
\*   "J"  the JSON text of an ObserverDeliveryEvent

Payloads == {<<>>, <<"D", "O">>, <<"J">>, <<"U">>}

\* What a mail producer hands to the spool
MailPayloads == {<<>>, <<"D", "O">>}

Prefixes(s) == {SubSeq(s, 1, k) : k \in 0..Len(s)}

Has(s, x) == \E i \in 1..Len(s) : s[i] = x

parse_bounce_report(raw) ==
    IF ~(Has(raw, "D") \/ Has(raw, "M")) THEN "NotDeliveryReport"
    ELSE IF ~Has(raw, "O") THEN "MissingHash"
    ELSE IF ~Has(raw, "D") THEN "MissingStatusCode"
    ELSE "Ok"

----------------------------------------------------------------------------
\* File system operations on the spool

FileAt(fsys, d, n) == {f \in fsys : f.dir = d /\ f.name = n}

Exists(fsys, d, n) == FileAt(fsys, d, n) # {}

DataAt(fsys, d, n) == (CHOOSE f \in FileAt(fsys, d, n) : TRUE).data

Without(fsys, d, n) == {f \in fsys : ~(f.dir = d /\ f.name = n)}

\* File::create / OpenOptions::create_new: an empty file at (d, n)
FsCreate(fsys, d, n) ==
    Without(fsys, d, n)
        \cup {[dir |-> d, name |-> n, data |-> <<>>, synced |-> FALSE]}

\* write_all wrote `data` so far
FsWrite(fsys, d, n, data) ==
    Without(fsys, d, n)
        \cup {[dir |-> d, name |-> n, data |-> data, synced |-> FALSE]}

\* sync_all
FsSync(fsys, d, n) ==
    {IF f.dir = d /\ f.name = n THEN [f EXCEPT !.synced = TRUE] ELSE f
        : f \in fsys}

FsRemove(fsys, d, n) == Without(fsys, d, n)

\* rename(2): the entry moves in one step, replacing any target
FsRenameCopy(fsys, d1, n1, d2, n2) ==
    Without(fsys, d2, n2)
        \cup {[f EXCEPT !.dir = d2, !.name = n2] : f \in FileAt(fsys, d1, n1)}

FsRename(fsys, d1, n1, d2, n2) ==
    Without(Without(fsys, d1, n1), d2, n2)
        \cup {[f EXCEPT !.dir = d2, !.name = n2] : f \in FileAt(fsys, d1, n1)}

\* A notify event for a path in incoming/ reaches the watcher's channel only
\* while the watcher exists.  The watcher drops a path that fails is_eml_file
\* without any effect, so such a path is dropped here already.
Emit(evs, names) ==
    IF watcherUp THEN evs \cup {n \in names : is_eml_file(n)} ELSE evs

----------------------------------------------------------------------------
\* Wire input of one read_frame_async call.  `avail` is the number of frame
\* fields (magic, header_len, body_len, header, body) that arrive completely
\* before the stream ends, `partial` says whether some bytes of the next
\* field arrive, `io` is the error read_exact then returns.

HeaderValues == {"heartbeat", "register", "observer_event", "absent",
                 "bounce", "invalid", "empty"}

\* Length in bytes of the header text; 0 only for the empty header
HeaderLen(h) == IF h = "empty" THEN 0 ELSE IF h = "invalid" THEN 7 ELSE 29

IoKinds == {"UnexpectedEof", "ConnectionReset", "BrokenPipe", "TimedOut"}

Frame(m, hl, bl, h, b, a, p, e) ==
    [magic |-> m, header_len |-> hl, body_len |-> bl, header |-> h,
     body |-> b, avail |-> a, partial |-> p, io |-> e]

NoInput == Frame("", 0, 0, "empty", <<>>, 0, FALSE, "none")

\* Frames that arrive completely
CompleteFrames ==
    {Frame(MAGIC, HeaderLen(h), Len(b), h, b, 5, FALSE, "UnexpectedEof") :
        h \in HeaderValues, b \in Payloads}
    \cup {Frame("XXXX", 29, 2, "absent", <<"D", "O">>, 5, FALSE,
                "UnexpectedEof"),
          Frame(MAGIC, MAX_HEADER_LEN + 1, 2, "absent", <<"D", "O">>, 5,
                FALSE, "UnexpectedEof"),
          Frame(MAGIC, MAX_HEADER_LEN, MAX_BODY_LEN + 1, "absent",
                <<"D", "O">>, 5, FALSE, "UnexpectedEof"),
          Frame(MAGIC, MAX_HEADER_LEN + 1, MAX_BODY_LEN + 1, "absent",
                <<"D", "O">>, 5, FALSE, "UnexpectedEof")}

\* Streams that end, or fail, before the frame is complete
TruncatedFrames ==
    {Frame(MAGIC, 29, 2, "absent", <<"D", "O">>, a, p, "UnexpectedEof") :
        a \in 0..4, p \in BOOLEAN}
    \cup {Frame(MAGIC, 29, 2, "absent", <<"D", "O">>, a, FALSE, e) :
            a \in {0, 3}, e \in IoKinds}
    \cup {Frame("XXXX", 29, 2, "absent", <<"D", "O">>, a, FALSE,
                "UnexpectedEof") : a \in {0, 1}}
    \cup {Frame(MAGIC, 0, 0, "empty", <<>>, 3, FALSE, "UnexpectedEof"),
          Frame(MAGIC, 29, 0, "heartbeat", <<>>, 4, FALSE, "UnexpectedEof"),
          Frame(MAGIC, MAX_HEADER_LEN + 1, 2, "absent", <<"D", "O">>, 2,
                FALSE, "UnexpectedEof"),
          Frame(MAGIC, 29, MAX_BODY_LEN + 1, "absent", <<"D", "O">>, 3,
                FALSE, "UnexpectedEof")}

WireInputs == CompleteFrames \cup TruncatedFrames

\* At least one byte of a frame was consumed before the stream ended
MidFrame(inp) == inp.avail >= 1 \/ inp.partial

IoErr(inp) == [tag |-> "Io", io |-> inp.io]

ProtoErr(t) == [tag |-> t, io |-> "none"]

read_frame_async_nomagic(inp, max_header_len, max_body_len) ==
    IF inp.avail < 2 THEN IoErr(inp)
    ELSE IF inp.header_len > max_header_len THEN ProtoErr("HeaderTooLarge")
    ELSE IF inp.avail < 3 THEN IoErr(inp)
    ELSE IF inp.body_len > max_body_len THEN ProtoErr("BodyTooLarge")
    ELSE IF inp.header_len > 0 /\ inp.avail < 4 THEN IoErr(inp)
    ELSE IF inp.body_len > 0 /\ inp.avail < 5 THEN IoErr(inp)
    ELSE ProtoErr("Ok")

read_frame_async(inp, max_header_len, max_body_len) ==
    IF inp.avail < 1 THEN IoErr(inp)
    ELSE IF inp.magic # MAGIC THEN ProtoErr("InvalidMagic")
    ELSE IF inp.avail < 2 THEN IoErr(inp)
    ELSE IF inp.header_len > max_header_len THEN ProtoErr("HeaderTooLarge")
    ELSE IF inp.avail < 3 THEN IoErr(inp)
    ELSE IF inp.body_len > max_body_len THEN ProtoErr("BodyTooLarge")
    ELSE IF inp.header_len > 0 /\ inp.avail < 4 THEN IoErr(inp)
    ELSE IF inp.body_len > 0 /\ inp.avail < 5 THEN IoErr(inp)
    ELSE ProtoErr("Ok")

\* decode_header_json: the header's kind, or HeaderDecode
decode_header_json(h) ==
    IF h \in {"invalid", "empty"} THEN "HeaderDecode" ELSE h

\* serde_json::from_slice::<ObserverDeliveryEvent>(&body) succeeds
DecodesAsEvent(b) == b \in {<<"J">>, <<"U">>}

----------------------------------------------------------------------------
\* The frame codec on bytes: write_frame_sync / write_frame_async and
\* read_frame_async.  A byte is a number in 0..255.

\* pub const MAGIC: [u8; 4] = *b"BNCE"
MagicBytes == <<66, 78, 67, 69>>

\* u32::to_be_bytes (w = 4), u64::to_be_bytes (w = 8)
RECURSIVE to_be_bytes(_, _)
to_be_bytes(n, w) ==
    IF w = 0 THEN <<>> ELSE Append(to_be_bytes(n \div 256, w - 1), n % 256)

\* u32::from_be_bytes, u64::from_be_bytes
RECURSIVE from_be_bytes(_)
from_be_bytes(bs) ==
    IF bs = <<>> THEN 0
    ELSE 256 * from_be_bytes(SubSeq(bs, 1, Len(bs) - 1)) + bs[Len(bs)]

write_frame_swapped(header, body) ==
    MagicBytes \o to_be_bytes(Len(body), 4) \o to_be_bytes(Len(header), 8)
        \o header \o body

\* The bytes write_frame puts on the stream (the lengths of the model's
\* headers and bodies always fit u32 and u64)
write_frame(header, body) ==
    MagicBytes \o to_be_bytes(Len(header), 4) \o to_be_bytes(Len(body), 8)
        \o header \o body

\* read_exact of n bytes at pos: the bytes, or UnexpectedEof after having
\* consumed what was there
read_exact(s, pos, n) ==
    IF pos + n <= Len(s)
    THEN [ok |-> TRUE, bytes |-> SubSeq(s, pos + 1, pos + n), pos |-> pos + n]
    ELSE [ok |-> FALSE, bytes |-> <<>>, pos |-> Len(s)]

FrameResult(tag, header, body, from, pos) ==
    [tag |-> tag, header |-> header, body |-> body, from |-> from,
     pos |-> pos]

read_frame_inclusive(s, from, max_header_len, max_body_len) ==
    LET m == read_exact(s, from, 4) IN
    IF ~m.ok THEN FrameResult("Io", <<>>, <<>>, from, m.pos)
    ELSE IF m.bytes # MagicBytes
    THEN FrameResult("InvalidMagic", <<>>, <<>>, from, m.pos)
    ELSE
    LET hl == read_exact(s, m.pos, 4) IN
    IF ~hl.ok THEN FrameResult("Io", <<>>, <<>>, from, hl.pos)
    ELSE IF from_be_bytes(hl.bytes) >= max_header_len
    THEN FrameResult("HeaderTooLarge", <<>>, <<>>, from, hl.pos)
    ELSE
    LET bl == read_exact(s, hl.pos, 8) IN
    IF ~bl.ok THEN FrameResult("Io", <<>>, <<>>, from, bl.pos)
    ELSE IF from_be_bytes(bl.bytes) >= max_body_len
    THEN FrameResult("BodyTooLarge", <<>>, <<>>, from, bl.pos)
    ELSE
    LET h == read_exact(s, bl.pos, from_be_bytes(hl.bytes)) IN
    IF ~h.ok THEN FrameResult("Io", <<>>, <<>>, from, h.pos)
    ELSE
    LET b == read_exact(s, h.pos, from_be_bytes(bl.bytes)) IN
    IF ~b.ok THEN FrameResult("Io", <<>>, <<>>, from, b.pos)
    ELSE FrameResult("Ok", h.bytes, b.bytes, from, b.pos)

\* read_frame_async on the bytes of the stream from position `from`
read_frame(s, from, max_header_len, max_body_len) ==
    LET m == read_exact(s, from, 4) IN
    IF ~m.ok THEN FrameResult("Io", <<>>, <<>>, from, m.pos)
    ELSE IF m.bytes # MagicBytes
    THEN FrameResult("InvalidMagic", <<>>, <<>>, from, m.pos)
    ELSE
    LET hl == read_exact(s, m.pos, 4) IN
    IF ~hl.ok THEN FrameResult("Io", <<>>, <<>>, from, hl.pos)
    ELSE IF from_be_bytes(hl.bytes) > max_header_len
    THEN FrameResult("HeaderTooLarge", <<>>, <<>>, from, hl.pos)
    ELSE
    LET bl == read_exact(s, hl.pos, 8) IN
    IF ~bl.ok THEN FrameResult("Io", <<>>, <<>>, from, bl.pos)
    ELSE IF from_be_bytes(bl.bytes) > max_body_len
    THEN FrameResult("BodyTooLarge", <<>>, <<>>, from, bl.pos)
    ELSE
    LET h == read_exact(s, bl.pos, from_be_bytes(hl.bytes)) IN
    IF ~h.ok THEN FrameResult("Io", <<>>, <<>>, from, h.pos)
    ELSE
    LET b == read_exact(s, h.pos, from_be_bytes(bl.bytes)) IN
    IF ~b.ok THEN FrameResult("Io", <<>>, <<>>, from, b.pos)
    ELSE FrameResult("Ok", h.bytes, b.bytes, from, b.pos)

\* Header and body byte strings a client writes
ByteStrings == {<<>>, <<0>>, <<66, 78>>, <<66, 78, 67, 69>>}

\* The limits a reader passes: small ones, and those of the ingest server
Limits(h, b) == [header |-> h, body |-> b]

ServerLimits == Limits(MAX_HEADER_LEN, MAX_BODY_LEN)

LimitChoices == {Limits(2, 1), Limits(0, 4), ServerLimits}

\* What one frame on the stream declares and what it carries
Sent(magic, hl, bl, header, body) ==
    [magic |-> magic, header_len |-> hl, body_len |-> bl,
     header |-> header, body |-> body]

\* Lengths a hostile or broken client may declare
DeclaredLens ==
    {0, 1, 2, 3, 5, MAX_HEADER_LEN, MAX_HEADER_LEN + 1,
     MAX_BODY_LEN, MAX_BODY_LEN + 1}

\* The content that follows forged lengths: all of it when it is short,
\* none of it otherwise (the client hangs up)
Fill(n) == IF n <= 5 THEN [i \in 1..n |-> 0] ELSE <<>>

Forged ==
    {Sent(MagicBytes, hl, bl, Fill(hl), IF hl <= 5 THEN Fill(bl) ELSE <<>>) :
        hl \in DeclaredLens, bl \in DeclaredLens}
    \cup {Sent(<<66, 78, 67, 70>>, 1, 1, <<0>>, <<0>>)}

\* The bytes of a forged frame
ForgedBytes(f) ==
    f.magic \o to_be_bytes(f.header_len, 4) \o to_be_bytes(f.body_len, 8)
        \o f.header \o f.body

WireStart(l) == [bytes |-> <<>>, sent |-> <<>>, closed |-> FALSE,
                 limits |-> l]

ReaderStart == [pos |-> 0, got |-> <<>>]

----------------------------------------------------------------------------
\* ParsedBounce and the status mapping.  A string is the sequence of its
\* characters; an Option is [some, val].

None == [some |-> FALSE, val |-> <<>>]

Some(v) == [some |-> TRUE, val |-> v]

ParsedBounce(hash, status_code, action, recipient, description) ==
    [hash |-> hash, status_code |-> status_code, action |-> action,
     recipient |-> recipient, description |-> description]

MAIL_STATUS_SUCCESS == 7
MAIL_STATUS_PENDING == 3
MAIL_STATUS_SUSPENDED == -2
MAIL_STATUS_FAILED == -7

UpperCase == <<"A", "D", "E", "F", "I", "L", "N", "R", "S", "T", "V", "Y",
               "C", "M", "P", "U", "X">>

LowerCase == <<"a", "d", "e", "f", "i", "l", "n", "r", "s", "t", "v", "y",
               "c", "m", "p", "u", "x">>

\* u8::to_ascii_lowercase on one character
to_ascii_lowercase(ch) ==
    IF \E i \in DOMAIN UpperCase : UpperCase[i] = ch
    THEN LowerCase[CHOOSE i \in DOMAIN UpperCase : UpperCase[i] = ch]
    ELSE ch

\* str::eq_ignore_ascii_case
eq_ignore_ascii_case(a, b) ==
    /\ Len(a) = Len(b)
    /\ \A i \in DOMAIN a : to_ascii_lowercase(a[i]) = to_ascii_lowercase(b[i])

\* str::starts_with
starts_with(str, prefix) ==
    Len(prefix) <= Len(str) /\ SubSeq(str, 1, Len(prefix)) = prefix

Delivered == <<"d", "e", "l", "i", "v", "e", "r", "e", "d">>

SentWord == <<"s", "e", "n", "t">>

Delayed == <<"d", "e", "l", "a", "y", "e", "d">>

Deferred == <<"d", "e", "f", "e", "r", "r", "e", "d">>

FailedWord == <<"f", "a", "i", "l", "e", "d">>

Code(a, b, c) == <<a, ".", b, ".", c>>

SuspendedCodes ==
    {Code("5", "7", "1"), Code("5", "7", "2"), Code("5", "7", "3"),
     Code("5", "7", "0")}

map_mail_message_status_code_first(parsed) ==
    IF parsed.status_code \in SuspendedCodes THEN MAIL_STATUS_SUSPENDED
    ELSE IF starts_with(parsed.status_code, <<"2", ".">>)
    THEN MAIL_STATUS_SUCCESS
    ELSE IF starts_with(parsed.status_code, <<"4", ".">>)
    THEN MAIL_STATUS_PENDING
    ELSE IF parsed.action.some
            /\ (\/ eq_ignore_ascii_case(parsed.action.val, Delivered)
                \/ eq_ignore_ascii_case(parsed.action.val, SentWord))
    THEN MAIL_STATUS_SUCCESS
    ELSE IF parsed.action.some
            /\ (\/ eq_ignore_ascii_case(parsed.action.val, Delayed)
                \/ eq_ignore_ascii_case(parsed.action.val, Deferred))
    THEN MAIL_STATUS_PENDING
    ELSE MAIL_STATUS_FAILED

map_mail_message_status(parsed) ==
    IF parsed.action.some
       /\ (\/ eq_ignore_ascii_case(parsed.action.val, Delivered)
           \/ eq_ignore_ascii_case(parsed.action.val, SentWord))
    THEN MAIL_STATUS_SUCCESS
    ELSE IF parsed.action.some
            /\ (\/ eq_ignore_ascii_case(parsed.action.val, Delayed)
                \/ eq_ignore_ascii_case(parsed.action.val, Deferred))
    THEN MAIL_STATUS_PENDING
    ELSE IF parsed.status_code \in SuspendedCodes THEN MAIL_STATUS_SUSPENDED
    ELSE IF starts_with(parsed.status_code, <<"2", ".">>)
    THEN MAIL_STATUS_SUCCESS
    ELSE IF starts_with(parsed.status_code, <<"4", ".">>)
    THEN MAIL_STATUS_PENDING
    ELSE MAIL_STATUS_FAILED

\* Arguments of the status mapping
ProbeActions ==
    {None, Some(<<>>), Some(Delivered), Some(SentWord), Some(Delayed),
     Some(Deferred), Some(FailedWord),
     Some(<<"D", "e", "l", "i", "v", "e", "r", "e", "d">>),
     Some(<<"S", "E", "N", "T">>),
     Some(<<"D", "E", "L", "A", "Y", "E", "D">>),
     Some(<<"d", "e", "f", "e", "r", "r", "e", "D">>),
     Some(<<"s", "e", "n", "t", "s">>),
     Some(<<"d", "e", "l", "a", "y">>),
     Some(<<"r", "e", "l", "a", "y", "e", "d">>)}

ProbeCodes ==
    {<<>>, Code("5", "7", "0"), Code("5", "7", "1"), Code("5", "7", "2"),
     Code("5", "7", "3"), Code("5", "7", "4"), Code("5", "1", "1"),
     Code("2", "0", "0"), Code("4", "4", "1"), <<"2">>, <<"2", ".">>,
     <<"4", ".">>, <<"4", "2", ".", "0">>, <<"5", ".", "7", ".", "1", "0">>,
     <<" ", "2", ".", "0", ".", "0">>}

NoParsed == ParsedBounce("", <<>>, None, None, None)

NoProbe == [parsed |-> NoParsed, mapped |-> 0, done |-> FALSE]

----------------------------------------------------------------------------
\* The database.  mail_messages is keyed by a unique hash; the two bounce
\* tables carry no key of their own, so every inserted row gets a row
\* number.  NOW() is db.now.

DbStart ==
    [mail_messages |-> {[id |-> 1, hash |-> "h1", status |-> 0,
                         updated_at |-> 0]},
     mail_message_bounces |-> {},
     mail_bounces |-> {},
     now |-> 0,
     rows |-> 0]

\* SELECT id FROM mail_messages WHERE hash = ? LIMIT 1 (0: no row)
SelectMessageId(d, hash) ==
    IF \E m \in d.mail_messages : m.hash = hash
    THEN (CHOOSE m \in d.mail_messages : m.hash = hash).id
    ELSE 0

\* SELECT 1 FROM mail_message_bounces WHERE message_id = ? LIMIT 1
ExistsMessageBounce(d, message_id) ==
    \E r \in d.mail_message_bounces : r.message_id = message_id

\* SELECT 1 FROM mail_bounces WHERE hash = ? LIMIT 1
ExistsBounce(d, hash) == \E r \in d.mail_bounces : r.hash = hash

\* UPDATE mail_messages SET status = ?, updated_at = NOW() WHERE id = ?
UpdateMessageById(d, message_id, status) ==
    [d EXCEPT !.mail_messages =
        {IF m.id = message_id
         THEN [m EXCEPT !.status = status, !.updated_at = d.now] ELSE m
            : m \in d.mail_messages}]

\* UPDATE mail_messages SET status = ?, updated_at = NOW() WHERE hash = ?
UpdateMessageByHash(d, hash, status) ==
    [d EXCEPT !.mail_messages =
        {IF m.hash = hash
         THEN [m EXCEPT !.status = status, !.updated_at = d.now] ELSE m
            : m \in d.mail_messages}]

\* UPDATE mail_message_bounces SET ... WHERE message_id = ?
UpdateMessageBounce(d, message_id, p) ==
    [d EXCEPT !.mail_message_bounces =
        {IF r.message_id = message_id
         THEN [r EXCEPT !.action = p.action, !.status_code = p.status_code,
                        !.description = p.description, !.created_at = d.now]
         ELSE r
            : r \in d.mail_message_bounces}]

\* INSERT INTO mail_message_bounces (...) VALUES (?, ?, ?, ?, NOW())
InsertMessageBounce(d, message_id, p) ==
    [d EXCEPT !.rows = d.rows + 1,
              !.mail_message_bounces = d.mail_message_bounces \cup
                  {[row |-> d.rows + 1, message_id |-> message_id,
                    action |-> p.action, status_code |-> p.status_code,
                    description |-> p.description, created_at |-> d.now]}]

\* UPDATE mail_bounces SET ... WHERE hash = ?
UpdateBounce(d, p) ==
    [d EXCEPT !.mail_bounces =
        {IF r.hash = p.hash
         THEN [r EXCEPT !.recipient = p.recipient, !.action = p.action,
                        !.status_code = p.status_code,
                        !.description = p.description, !.created_at = d.now]
         ELSE r
            : r \in d.mail_bounces}]

\* INSERT INTO mail_bounces (...) VALUES (?, ?, ?, ?, ?, NOW())
InsertBounce(d, p) ==
    [d EXCEPT !.rows = d.rows + 1,
              !.mail_bounces = d.mail_bounces \cup
                  {[row |-> d.rows + 1, hash |-> p.hash,
                    recipient |-> p.recipient, action |-> p.action,
                    status_code |-> p.status_code,
                    description |-> p.description, created_at |-> d.now]}]

\* The update + bounce upsert for a linked message
LinkedWrites(d1, message_id, exists, p) ==
    IF map_mail_message_status(p) = MAIL_STATUS_SUCCESS THEN d1
    ELSE IF exists THEN UpdateMessageBounce(d1, message_id, p)
    ELSE InsertMessageBounce(d1, message_id, p)

ApplyWritesBlind(d, op, p, message_id, exists) ==
    IF message_id # 0
    THEN LinkedWrites(
            IF op = "apply_observer_event"
            THEN UpdateMessageById(d, message_id, map_mail_message_status(p))
            ELSE UpdateMessageByHash(d, p.hash, map_mail_message_status(p)),
            message_id, FALSE, p)
    ELSE IF op = "apply_observer_event" THEN d
    ELSE IF map_mail_message_status(p) = MAIL_STATUS_SUCCESS THEN d
    ELSE InsertBounce(d, p)

ApplyWritesOrphan(d, op, p, message_id, exists) ==
    IF message_id # 0
    THEN LinkedWrites(
            IF op = "apply_observer_event"
            THEN UpdateMessageById(d, message_id, map_mail_message_status(p))
            ELSE UpdateMessageByHash(d, p.hash, map_mail_message_status(p)),
            message_id, exists, p)
    ELSE IF map_mail_message_status(p) = MAIL_STATUS_SUCCESS THEN d
    ELSE IF exists THEN UpdateBounce(d, p)
    ELSE InsertBounce(d, p)

\* The statements one transaction executes after its SELECTs returned
\* message_id (0: none) and exists
ApplyWrites(d, op, p, message_id, exists) ==
    IF message_id # 0
    THEN LinkedWrites(
            IF op = "apply_observer_event"
            THEN UpdateMessageById(d, message_id, map_mail_message_status(p))
            ELSE UpdateMessageByHash(d, p.hash, map_mail_message_status(p)),
            message_id, exists, p)
    ELSE IF op = "apply_observer_event" THEN d
    ELSE IF map_mail_message_status(p) = MAIL_STATUS_SUCCESS THEN d
    ELSE IF exists THEN UpdateBounce(d, p)
    ELSE InsertBounce(d, p)

\* tx.commit(): the writes become visible, time moves on
Commit(d) == [d EXCEPT !.now = d.now + 1]

\* What the second SELECT of a transaction returns
SelectExists(d, p, message_id) ==
    IF message_id # 0 THEN ExistsMessageBounce(d, message_id)
    ELSE ExistsBounce(d, p.hash)

\* A whole transaction with no other transaction in between
RunTx(d, op, p) ==
    LET message_id == SelectMessageId(d, p.hash) IN
    Commit(ApplyWrites(d, op, p, message_id,
                       SelectExists(d, p, message_id)))

\* Database::upsert_bounce
upsert_bounce(d, p) ==
    [db |-> RunTx(d, "upsert_bounce", p),
     ret |-> IF SelectMessageId(d, p.hash) # 0 THEN "UpdatedLocalMessage"
             ELSE "MissingLocalMessage"]

\* ObserverDeliveryEvent::as_parsed_bounce
as_parsed_bounce(event) ==
    ParsedBounce(event.hash, event.status_code, Some(event.action),
                 Some(event.recipient), Some(event.diagnostic))

\* Database::apply_observer_event
apply_observer_event(d, event) ==
    [db |-> RunTx(d, "apply_observer_event", as_parsed_bounce(event)),
     ret |-> "Ok"]

\* Calls made on the database

Outcomes ==
    {<<Code("5", "1", "1"), Some(FailedWord)>>,
     <<Code("2", "0", "0"), Some(Delivered)>>,
     <<Code("5", "7", "1"), None>>}

Hashes == {"h1", "h2"}

DbBounces ==
    {ParsedBounce(h, o[1], o[2], Some(<<"r">>), Some(<<"x">>)) :
        h \in Hashes, o \in Outcomes}

ObserverDeliveryEvent(hash, status_code, action) ==
    [hash |-> hash, status_code |-> status_code, action |-> action,
     recipient |-> <<"r">>, diagnostic |-> <<"q">>]

DbEvents ==
    {ObserverDeliveryEvent(h, o[1], o[2].val) :
        h \in Hashes, o \in {x \in Outcomes : x[2].some}}

\* serde_json::from_slice::<ObserverDeliveryEvent>(&body): "J" reports a
\* failed delivery of the message with hash h1, "U" one of an unknown hash
from_slice(b) ==
    ObserverDeliveryEvent(IF b = <<"J">> THEN "h1" ELSE "h2",
                          Code("5", "1", "1"), FailedWord)

\* Tasks that run database transactions in parallel
Tasks == {1, 2}

TxIdle == [pc |-> "idle", op |-> "none", parsed |-> NoParsed,
           message_id |-> 0, exists |-> FALSE, ret |-> "none"]

----------------------------------------------------------------------------
\* The IMAP poller: one iteration of run_imap_poll_once.  A mailbox is a
\* sequence of raw mails, the UID of a mail being its index.

IMAP_PROCESS_CONCURRENCY_MAX == 16

Min(a, b) == IF a <= b THEN a ELSE b

Max(a, b) == IF a >= b THEN a ELSE b

\* parse_bounce_report_detailed: the mark "2" stands for a Message-ID whose
\* hash is h2, no mark for h1
parse_bounce_report_detailed(raw) ==
    [tag |-> parse_bounce_report(raw),
     parsed |-> ParsedBounce(IF Has(raw, "2") THEN "h2" ELSE "h1",
                             Code("5", "1", "1"), Some(FailedWord),
                             Some(<<"r">>), Some(<<"x">>))]

ImapMails == {<<"D", "O">>, <<"D", "O", "2">>, <<>>, <<"D">>, <<"M", "O">>}

\* process_fetched_message: the ProcessResult and the database after it
process_fetched_message(raw, d, dbOk) ==
    LET r == parse_bounce_report_detailed(raw) IN
    IF r.tag = "NotDeliveryReport"
    THEN [result |-> "IgnoredNotDelivery", db |-> d]
    ELSE IF r.tag = "MissingHash"
    THEN [result |-> "IgnoredMissingHash", db |-> d]
    ELSE IF r.tag # "Ok" THEN [result |-> "ParseFailed", db |-> d]
    ELSE IF ~dbOk THEN [result |-> "DbFailed", db |-> d]
    ELSE IF upsert_bounce(d, r.parsed).ret = "UpdatedLocalMessage"
    THEN [result |-> "Processed", db |-> upsert_bounce(d, r.parsed).db]
    ELSE [result |-> "MissingInDb", db |-> upsert_bounce(d, r.parsed).db]

collect_marks_all(result, mark_seen) == result # "none"

\* collect_one_process_result: does this result push the uid to seen_uids
collect_marks(result, mark_seen) ==
    \/ result \in {"Processed", "IgnoredNotDelivery", "IgnoredMissingHash"}
    \/ result = "MissingInDb" /\ mark_seen

process_concurrency_unbounded(max_messages) == Max(max_messages, 1)

\* max_messages.min(IMAP_PROCESS_CONCURRENCY_MAX)
process_concurrency(max_messages) ==
    Min(Max(max_messages, 1), IMAP_PROCESS_CONCURRENCY_MAX)

\* uids.sort_unstable_by(|a, b| b.cmp(a)); uids.truncate(max_messages)
SelectUids(n, max_messages) ==
    [i \in 1..Min(n, Max(max_messages, 1)) |-> n + 1 - i]

\* reliable: the server answers the batched FETCH with every message
ImapStart(mails, max_messages, mark_seen, reliable) ==
    [mails |-> mails, max_messages_per_poll |-> max_messages,
     mark_seen_if_not_exist |-> mark_seen, reliable |-> reliable,
     pc |-> "idle", uids |-> <<>>, next |-> 1, fetched_items |-> 0,
     processing |-> {}, result |-> [u \in DOMAIN mails |-> "none"],
     seen_uids |-> {}, store |-> [sent |-> FALSE, uids |-> {}],
     ret |-> "none"]

ImapIdle == ImapStart(<<>>, 1, FALSE, TRUE)

\* Small mailboxes of any mails, and one mailbox with more mails than
\* IMAP_PROCESS_CONCURRENCY_MAX
ImapStarts ==
    {ImapStart(m, k, f, FALSE) :
        m \in UNION {[1..n -> ImapMails] : n \in 0..MaxUids},
        k \in 1..MaxUids, f \in BOOLEAN}
    \cup {ImapStart([i \in 1..(IMAP_PROCESS_CONCURRENCY_MAX + 1) |-> <<>>],
                    IMAP_PROCESS_CONCURRENCY_MAX + 1, FALSE, TRUE)}

\* Placeholders of the observer and of the daemon's tasks
ObsIdle == [pc |-> "idle"]

PubIdle == [pc |-> "idle"]

SdIdle == [main |-> "idle"]

ExtInit ==
    /\ imap = ImapIdle
    /\ obs = ObsIdle
    /\ pub = PubIdle
    /\ sd = SdIdle

----------------------------------------------------------------------------
\* Initial state: Spool::ensure_dirs has run, every task has been spawned

\* handle_client tasks; connections share only the spool and the database
Conns == {1, 2}

\* One worker more than the configuration asks for
WorkersOneMore == 1..(Max(WorkerConcurrency, 1) + 1)

\* workers = concurrency.max(1)
Workers == 1..Max(WorkerConcurrency, 1)

\* process_queue_capacity = worker_concurrency.max(1) * per_worker
process_queue_capacity == Max(WorkerConcurrency, 1) * ProcessQueuePerWorker

NoName == <<>>

ConnStart == [pc |-> "read", k |-> 0, kind |-> "none", body |-> <<>>,
              id |-> 0, ret |-> "none", rd |-> "none", inp |-> NoInput,
              log |-> <<>>]

HookIdle == [pc |-> "idle", id |-> 0, body |-> <<>>]

WorkerIdle == [pc |-> "recv", path |-> NoName, result |-> "none",
               ret |-> "none"]

\* process_spooled_message returned `ret` for `path`: on Err the worker
\* logs a warning before it waits for the next path
WorkerReturned(path, ret) ==
    IF ret = "ok" THEN WorkerIdle
    ELSE [pc |-> "warn", path |-> path, result |-> "none", ret |-> ret]

ScanIdle == [pc |-> "sleep", pending |-> {}]

\* run_tcp_server after bind: the accept loop runs.  `warned` holds the
\* connections whose task ended with the warning, `late` the connections
\* accepted after that had happened
SrvStart == [pc |-> "accept", cause |-> "none", warned |-> {}, late |-> {}]

\* main() before Config::load
SrvBoot == [SrvStart EXCEPT !.pc = "load"]

\* A client that listener.accept() has not returned yet
ConnPending == [ConnStart EXCEPT !.pc = "pending"]

\* One accepted connection
ConnInit == [c \in Conns |-> IF c = 1 THEN ConnStart ELSE ConnPending]

\* The daemon is up and serves one connection
RunningInit ==
    /\ conn = ConnInit
    /\ srv = SrvStart

MemoryInit ==
    /\ hook = HookIdle
    /\ watcherUp \in BOOLEAN
    /\ events = {}
    /\ queue = <<>>
    /\ scan = ScanIdle
    /\ worker = [w \in Workers |-> WorkerIdle]

PipelineInit ==
    /\ files = {}
    /\ nextId = 0
    /\ dropped = {}
    /\ payloadOf = [i \in Ids |-> <<>>]
    /\ procLog = {}
    /\ dbOps = 0
    /\ enqFailed = {}
    /\ epoch = 0
    /\ orphaned = {}
    /\ MemoryInit
    /\ db = DbStart
    /\ tx = [t \in Tasks |-> TxIdle]

Init ==
    /\ PipelineInit
    /\ RunningInit
    /\ wire = WireStart(ServerLimits)
    /\ reader = ReaderStart
    /\ probe = NoProbe
    /\ ExtInit

\* A client and a reader of one stream, for each choice of limits
FrameInit ==
    /\ PipelineInit
    /\ RunningInit
    /\ wire \in {WireStart(l) : l \in LimitChoices}
    /\ reader = ReaderStart
    /\ probe = NoProbe
    /\ ExtInit

----------------------------------------------------------------------------
\* bounce-delivery: write_incoming_mail / write_temp_and_rename

\* What the delivery hook is given on stdin: any mail, a bounce report
\* without an original section included
HookPayloads == MailPayloads \cup {<<"D">>}

HookStart ==
    /\ hook.pc = "idle"
    /\ nextId < MaxIds
    /\ \E body \in HookPayloads, ok \in BOOLEAN :
         LET id == nextId + 1 IN
         /\ nextId' = id
         /\ payloadOf' = [payloadOf EXCEPT ![id] = body]
         /\ IF ok
            THEN /\ files' = FsCreate(files, "incoming", HookTmpName(id))
                 /\ events' = Emit(events, {HookTmpName(id)})
                 /\ hook' = [pc |-> "write", id |-> id, body |-> body]
                 /\ UNCHANGED enqFailed
            ELSE /\ enqFailed' = enqFailed \cup {id}
                 /\ UNCHANGED <<files, events, hook>>
    /\ UNCHANGED <<dropped, conn, watcherUp, queue, scan, worker, procLog,
                   dbOps, epoch, orphaned,
                   aux>>

HookFail(fsys) ==
    /\ files' = fsys
    /\ enqFailed' = enqFailed \cup {hook.id}
    /\ hook' = HookIdle

HookWrite ==
    /\ hook.pc = "write"
    /\ \E k \in 0..Len(hook.body) :
         IF k = Len(hook.body)
         THEN /\ files' = FsWrite(files, "incoming", HookTmpName(hook.id),
                                  hook.body)
              /\ hook' = [hook EXCEPT !.pc = "sync"]
              /\ UNCHANGED enqFailed
         ELSE HookFail(FsRemove(files, "incoming", HookTmpName(hook.id)))
    /\ events' = Emit(events, {HookTmpName(hook.id)})
    /\ UNCHANGED <<nextId, dropped, payloadOf, conn, watcherUp, queue, scan,
                   worker, procLog, dbOps, epoch, orphaned,
                   aux>>

HookSync ==
    /\ hook.pc = "sync"
    /\ \E ok \in BOOLEAN :
         IF ok
         THEN /\ files' = FsSync(files, "incoming", HookTmpName(hook.id))
              /\ hook' = [hook EXCEPT !.pc = "rename"]
              /\ UNCHANGED <<enqFailed, events>>
         ELSE /\ HookFail(FsRemove(files, "incoming", HookTmpName(hook.id)))
              /\ events' = Emit(events, {HookTmpName(hook.id)})
    /\ UNCHANGED <<nextId, dropped, payloadOf, conn, watcherUp, queue, scan,
                   worker, procLog, dbOps, epoch, orphaned,
                   aux>>

HookRename ==
    /\ hook.pc = "rename"
    /\ \E ok \in BOOLEAN :
         IF ok
         THEN /\ files' = FsRename(files, "incoming", HookTmpName(hook.id),
                                   "incoming", HookFinalName(hook.id))
              /\ events' = Emit(events, {HookTmpName(hook.id),
                                         HookFinalName(hook.id)})
              /\ hook' = HookIdle
              /\ UNCHANGED enqFailed
         ELSE /\ HookFail(files)
              /\ UNCHANGED events
    /\ UNCHANGED <<nextId, dropped, payloadOf, conn, watcherUp, queue, scan,
                   worker, procLog, dbOps, epoch, orphaned,
                   aux>>

\* Another program (an MTA, an operator, a test) leaves a file in incoming/
ExternalDrop ==
    /\ \E n \in ExternalNames \ dropped, data \in {<<"D", "O">>} :
         /\ dropped' = dropped \cup {n}
         /\ files' = files \cup {[dir |-> "incoming", name |-> n,
                                  data |-> data, synced |-> TRUE]}
         /\ events' = Emit(events, {n})
    /\ UNCHANGED <<nextId, payloadOf, conn, hook, watcherUp, queue, scan,
                   worker, procLog, dbOps, enqFailed, epoch, orphaned,
                   aux>>

----------------------------------------------------------------------------
\* Dispatcher producers

\* run_notify_watcher: one path of one event
NotifyWatcher ==
    /\ watcherUp
    /\ \E n \in events :
         /\ events' = events \ {n}
         /\ IF is_eml_file(n)
            THEN /\ Len(queue) < process_queue_capacity
                 /\ queue' = Append(queue, n)
            ELSE UNCHANGED queue
    /\ UNCHANGED <<files, nextId, dropped, payloadOf, conn, hook, watcherUp,
                   scan, worker, procLog, dbOps, enqFailed, epoch, orphaned,
                   aux>>

\* A scan that enumerates another directory
ScanDirProcessing == {"processing"}

\* The directory the periodic scan enumerates
ScanDir == {"incoming"}

\* spawn_periodic_scan: ticker.tick() and read_dir
ScanTick ==
    /\ scan.pc = "sleep"
    /\ \E ok \in BOOLEAN :
         IF ok
         THEN LET found == {f.name : f \in {g \in files : g.dir \in ScanDir}}
                  eml == {n \in found : is_eml_file(n)}
              IN scan' = [pc |-> IF eml = {} THEN "sleep" ELSE "push",
                          pending |-> eml]
         ELSE UNCHANGED scan
    /\ UNCHANGED <<files, nextId, dropped, payloadOf, conn, hook, watcherUp,
                   events, queue, worker, procLog, dbOps, enqFailed, epoch,
                   orphaned, aux>>

\* spawn_periodic_scan: process_tx.send(path) for the next directory entry
ScanPush ==
    /\ scan.pc = "push"
    /\ Len(queue) < process_queue_capacity
    /\ \E n \in scan.pending :
         /\ queue' = Append(queue, n)
         /\ scan' = [pc |-> IF scan.pending = {n} THEN "sleep" ELSE "push",
                     pending |-> scan.pending \ {n}]
    /\ UNCHANGED <<files, nextId, dropped, payloadOf, conn, hook, watcherUp,
                   events, worker, procLog, dbOps, enqFailed, epoch, orphaned,
                   aux>>

----------------------------------------------------------------------------
\* Dispatcher consumers: spawn_worker_dispatcher / process_spooled_message

\* rx.recv() under the receiver lock
WorkerRecv(w) ==
    /\ worker[w].pc = "recv"
    /\ queue # <<>>
    /\ worker' = [worker EXCEPT ![w] = [pc |-> "claim", path |-> Head(queue),
                                        result |-> "none", ret |-> "none"]]
    /\ queue' = Tail(queue)
    /\ UNCHANGED <<files, nextId, dropped, payloadOf, conn, hook, watcherUp,
                   events, scan, procLog, dbOps, enqFailed, epoch, orphaned,
                   aux>>

\* What the worker does after rename(incoming/f, processing/f) returned:
\* "process" the file, or leave process_spooled_message with Ok / Err
ClaimOutcomeNoSkip(found, ioOk) ==
    IF ioOk THEN "process" ELSE "err"

ClaimOutcome(found, ioOk) ==
    IF ~found THEN "skip"
    ELSE IF ioOk THEN "process"
    ELSE "err"

\* is_eml_file check and rename incoming/f -> processing/f
WorkerClaim(w) ==
    /\ worker[w].pc = "claim"
    /\ LET n == worker[w].path IN
       IF ~is_eml_file(n)
       THEN /\ worker' = [worker EXCEPT ![w] = WorkerReturned(n, "ok")]
            /\ UNCHANGED <<files, events>>
       ELSE \E ioOk \in BOOLEAN :
              LET out == ClaimOutcome(Exists(files, "incoming", n), ioOk) IN
              /\ IF out = "process"
                 THEN /\ files' = FsRename(files, "incoming", n,
                                           "processing", n)
                      /\ events' = Emit(events, {n})
                      /\ worker' = [worker EXCEPT ![w].pc = "process"]
                 ELSE /\ worker' = [worker EXCEPT ![w] =
                           WorkerReturned(n, IF out = "skip" THEN "ok"
                                             ELSE "err")]
                      /\ UNCHANGED <<files, events>>
    /\ UNCHANGED <<nextId, dropped, payloadOf, conn, hook, watcherUp, queue,
                   scan, procLog, dbOps, enqFailed, epoch, orphaned,
                   aux>>

\* Result of the read / empty check / parse / upsert block
ProcessResult(readOk, raw, dbOk) ==
    IF ~readOk THEN "read failed"
    ELSE IF raw = <<>> THEN "empty mail payload"
    ELSE IF parse_bounce_report(raw) # "Ok" THEN parse_bounce_report(raw)
    ELSE IF ~dbOk THEN "database upsert failed"
    ELSE "Ok"

Ordinal(n) ==
    1 + Cardinality({e \in procLog : e.name = n /\ e.epoch = epoch})

\* tokio::fs::read, parse_bounce_report, db.upsert_bounce
WorkerProcess(w) ==
    /\ worker[w].pc = "process"
    /\ LET n == worker[w].path IN
       \E readOk \in BOOLEAN, dbOk \in BOOLEAN :
         LET found == Exists(files, "processing", n)
             raw == IF found THEN DataAt(files, "processing", n) ELSE <<>>
             res == ProcessResult(readOk /\ found, raw, dbOk)
         IN /\ worker' = [worker EXCEPT ![w].pc = "finalize",
                                        ![w].result = res]
            /\ procLog' = procLog \cup {[name |-> n, epoch |-> epoch,
                                         ord |-> Ordinal(n)]}
            /\ dbOps' = IF res = "Ok" THEN dbOps + 1 ELSE dbOps
    /\ UNCHANGED <<files, nextId, dropped, payloadOf, conn, hook, watcherUp,
                   events, queue, scan, enqFailed, epoch, orphaned,
                   aux>>

\* A target directory that does not look at the result
TargetDirDone(result) == "done"

\* A target directory that puts a failed file back for another attempt
TargetDirRequeue(result) == IF result = "Ok" THEN "done" ELSE "incoming"

\* target_dir = if result.is_ok() { done } else { failed }
TargetDir(result) == IF result = "Ok" THEN "done" ELSE "failed"

\* rename processing/f -> done/f or failed/f, then return result
WorkerFinalize(w) ==
    /\ worker[w].pc = "finalize"
    /\ LET n == worker[w].path
           res == worker[w].result
       IN \E ioOk \in BOOLEAN :
            IF ioOk /\ Exists(files, "processing", n)
            THEN /\ files' = FsRename(files, "processing", n,
                                      TargetDir(res), n)
                 /\ worker' = [worker EXCEPT ![w] =
                        WorkerReturned(n, IF res = "Ok" THEN "ok" ELSE "err")]
            ELSE /\ worker' = [worker EXCEPT ![w] = WorkerReturned(n, "err")]
                 /\ UNCHANGED files
    /\ UNCHANGED <<nextId, dropped, payloadOf, conn, hook, watcherUp, events,
                   queue, scan, procLog, dbOps, enqFailed, epoch, orphaned,
                   aux>>

\* warn!("message processing failed: ..."), then wait for the next path
WorkerWarn(w) ==
    /\ worker[w].pc = "warn"
    /\ worker' = [worker EXCEPT ![w] = WorkerIdle]
    /\ UNCHANGED <<files, nextId, dropped, payloadOf, conn, hook, watcherUp,
                   events, queue, scan, procLog, dbOps, enqFailed, epoch,
                   orphaned, aux>>

----------------------------------------------------------------------------
\* Crash and restart of the machine: memory is lost, the spool survives.
\* Data that was not fsynced survives as some prefix of what was written.

Unsynced == {f \in files : ~f.synced}

CrashImages ==
    {img \in [Unsynced -> UNION {Prefixes(p) : p \in Payloads}] :
        \A f \in Unsynced : img[f] \in Prefixes(f.data)}

Crash ==
    /\ epoch < MaxCrashes
    /\ epoch' = epoch + 1
    /\ \E img \in CrashImages :
         files' = {IF f.synced THEN f
                   ELSE [f EXCEPT !.data = img[f], !.synced = TRUE]
                      : f \in files}
    /\ orphaned' = {f.name : f \in {g \in files : g.dir = "processing"}}
    /\ conn' = ConnInit
    /\ hook' = HookIdle
    /\ watcherUp' \in BOOLEAN
    /\ events' = {}
    /\ queue' = <<>>
    /\ scan' = ScanIdle
    /\ worker' = [w \in Workers |-> WorkerIdle]
    /\ UNCHANGED <<nextId, dropped, payloadOf, procLog, dbOps, enqFailed,
                   aux>>

----------------------------------------------------------------------------
\* handle_client

\* The io kinds handle_client treats as a disconnect (break, then Ok(()))
DisconnectKinds == {"UnexpectedEof", "ConnectionReset", "BrokenPipe"}

\* Where the frame loop goes for a decoded header kind
DispatchAllAck(kind) == "ack"

DispatchHeartbeatNoAck(kind) ==
    IF kind = "heartbeat" THEN "read"
    ELSE IF kind = "register" THEN "ack"
    ELSE IF kind = "observer_event" THEN "apply"
    ELSE "enq_create"

DispatchObserverToSpool(kind) ==
    IF kind \in {"heartbeat", "register"} THEN "ack" ELSE "enq_create"

Dispatch(kind) ==
    IF kind \in {"heartbeat", "register"} THEN "ack"
    ELSE IF kind = "observer_event" THEN "apply"
    ELSE "enq_create"

ConnClose(c, ret) == [conn[c] EXCEPT !.pc = "closed", !.ret = ret]

LogEntry(ev, k, kind, id) == [ev |-> ev, k |-> k, kind |-> kind, id |-> id]

Logged(c, ev) ==
    Append(conn[c].log, LogEntry(ev, conn[c].k, conn[c].kind, conn[c].id))

\* handle_client: read_frame_async, decode_header_json, dispatch on kind
ConnReadFrom(c, inputs) ==
    /\ conn[c].pc = "read"
    /\ \E inp \in inputs :
         LET r == read_frame_async(inp, MAX_HEADER_LEN, MAX_BODY_LEN)
             seen == [conn[c] EXCEPT !.rd = r.tag, !.inp = inp]
         IN
         IF r.tag = "Io"
         THEN /\ conn' = [conn EXCEPT ![c] =
                    [seen EXCEPT !.pc = "closed",
                        !.rd = inp.io,
                        !.ret = IF inp.io \in DisconnectKinds
                                THEN "ok" ELSE "err"]]
              /\ UNCHANGED <<nextId, payloadOf>>
         ELSE IF r.tag # "Ok"
         THEN /\ conn' = [conn EXCEPT ![c] =
                    [seen EXCEPT !.pc = "closed", !.ret = "err"]]
              /\ UNCHANGED <<nextId, payloadOf>>
         ELSE /\ conn[c].k < MaxFrames
              /\ LET kind == decode_header_json(inp.header)
                     got == [seen EXCEPT !.k = conn[c].k + 1,
                                !.kind = kind, !.body = inp.body,
                                !.id = 0,
                                !.log = Append(conn[c].log,
                                    LogEntry("read", conn[c].k + 1, kind, 0))]
                 IN
                 IF kind = "HeaderDecode"
                 THEN /\ conn' = [conn EXCEPT ![c] =
                            [got EXCEPT !.pc = "closed", !.ret = "err"]]
                      /\ UNCHANGED <<nextId, payloadOf>>
                 ELSE IF Dispatch(kind) = "enq_create"
                 THEN /\ nextId < MaxIds
                      /\ nextId' = nextId + 1
                      /\ payloadOf' = [payloadOf EXCEPT
                                          ![nextId + 1] = inp.body]
                      /\ conn' = [conn EXCEPT ![c] =
                            [got EXCEPT !.pc = "enq_create",
                                        !.id = nextId + 1]]
                 ELSE /\ conn' = [conn EXCEPT ![c] =
                            [got EXCEPT !.pc = Dispatch(kind)]]
                      /\ UNCHANGED <<nextId, payloadOf>>
    /\ UNCHANGED <<files, dropped, hook, watcherUp, events, queue,
                   scan, worker, procLog, dbOps, enqFailed, epoch, orphaned,
                   aux>>

\* A client that may send anything and hang up anywhere
ConnRead(c) == ConnReadFrom(c, WireInputs)

\* observer_event: decode the body, Database::apply_observer_event
ConnApply(c) ==
    /\ conn[c].pc = "apply"
    /\ \E dbOk \in BOOLEAN :
         IF DecodesAsEvent(conn[c].body) /\ dbOk
         THEN /\ db' = apply_observer_event(db, from_slice(conn[c].body)).db
              /\ dbOps' = dbOps + 1
              /\ conn' = [conn EXCEPT ![c].pc = "ack",
                                      ![c].log = Logged(c, "effect")]
         ELSE /\ conn' = [conn EXCEPT ![c] = ConnClose(c, "err")]
              /\ UNCHANGED <<dbOps, db>>
    /\ UNCHANGED <<files, nextId, dropped, payloadOf, hook, watcherUp, events,
                   queue, scan, worker, procLog, enqFailed, epoch, orphaned,
                   srv, tx, wire, reader, probe, ext>>

\* Spool::enqueue_mail, File::create(&tmp_path)
ConnEnqFail(c, fsys) ==
    /\ files' = fsys
    /\ enqFailed' = enqFailed \cup {conn[c].id}
    /\ conn' = [conn EXCEPT ![c] = ConnClose(c, "err")]

ConnEnqCreate(c) ==
    /\ conn[c].pc = "enq_create"
    /\ \E ok \in BOOLEAN :
         IF ok
         THEN /\ files' = FsCreate(files, "incoming", SpoolTmpName(conn[c].id))
              /\ events' = Emit(events, {SpoolTmpName(conn[c].id)})
              /\ conn' = [conn EXCEPT ![c].pc = "enq_write"]
              /\ UNCHANGED enqFailed
         ELSE /\ ConnEnqFail(c, files)
              /\ UNCHANGED events
    /\ UNCHANGED <<nextId, dropped, payloadOf, hook, watcherUp, queue, scan,
                   worker, procLog, dbOps, epoch, orphaned,
                   aux>>

\* Spool::enqueue_mail, file.write_all(payload)
ConnEnqWrite(c) ==
    /\ conn[c].pc = "enq_write"
    /\ \E k \in 0..Len(conn[c].body) :
         IF k = Len(conn[c].body)
         THEN /\ files' = FsWrite(files, "incoming", SpoolTmpName(conn[c].id),
                                  conn[c].body)
              /\ conn' = [conn EXCEPT ![c].pc = "enq_sync"]
              /\ UNCHANGED enqFailed
         ELSE ConnEnqFail(c, FsWrite(files, "incoming",
                                     SpoolTmpName(conn[c].id),
                                     SubSeq(conn[c].body, 1, k)))
    /\ events' = Emit(events, {SpoolTmpName(conn[c].id)})
    /\ UNCHANGED <<nextId, dropped, payloadOf, hook, watcherUp, queue, scan,
                   worker, procLog, dbOps, epoch, orphaned,
                   aux>>

\* Spool::enqueue_mail, file.sync_all()
ConnEnqSync(c) ==
    /\ conn[c].pc = "enq_sync"
    /\ \E ok \in BOOLEAN :
         IF ok
         THEN /\ files' = FsSync(files, "incoming", SpoolTmpName(conn[c].id))
              /\ conn' = [conn EXCEPT ![c].pc = "enq_rename"]
              /\ UNCHANGED enqFailed
         ELSE ConnEnqFail(c, files)
    /\ UNCHANGED <<nextId, dropped, payloadOf, hook, watcherUp, events, queue,
                   scan, worker, procLog, dbOps, epoch, orphaned,
                   aux>>

\* Spool::enqueue_mail, rename(tmp_path, final_path)
ConnEnqRename(c) ==
    /\ conn[c].pc = "enq_rename"
    /\ \E ok \in BOOLEAN :
         IF ok
         THEN /\ files' = FsRename(files,
                                   "incoming", SpoolTmpName(conn[c].id),
                                   "incoming", SpoolFileName(conn[c].id))
              /\ events' = Emit(events, {SpoolTmpName(conn[c].id),
                                         SpoolFileName(conn[c].id)})
              /\ conn' = [conn EXCEPT ![c].pc = "ack",
                                      ![c].log = Logged(c, "effect")]
              /\ UNCHANGED enqFailed
         ELSE /\ ConnEnqFail(c, files)
              /\ UNCHANGED events
    /\ UNCHANGED <<nextId, dropped, payloadOf, hook, watcherUp, queue, scan,
                   worker, procLog, dbOps, epoch, orphaned,
                   aux>>

\* stream.write_all(ACK), then the next loop iteration
ConnAck(c) ==
    /\ conn[c].pc = "ack"
    /\ \E ok \in BOOLEAN :
         IF ok
         THEN conn' = [conn EXCEPT ![c].pc = "read",
                                   ![c].log = Logged(c, "ack")]
         ELSE conn' = [conn EXCEPT ![c] = ConnClose(c, "err")]
    /\ UNCHANGED <<files, nextId, dropped, payloadOf, hook, watcherUp, events,
                   queue, scan, worker, procLog, dbOps, enqFailed, epoch,
                   orphaned, aux>>

----------------------------------------------------------------------------
\* A client writing frames to a stream and a reader decoding them

Last(q) == q[Len(q)]

\* A client calls write_frame
FrameWrite ==
    /\ ~wire.closed
    /\ Len(wire.sent) < MaxWireFrames
    /\ \E h \in ByteStrings, b \in ByteStrings :
         wire' = [wire EXCEPT
                    !.bytes = wire.bytes \o write_frame(h, b),
                    !.sent = Append(wire.sent,
                                Sent(MagicBytes, Len(h), Len(b), h, b))]
    /\ UNCHANGED <<files, nextId, dropped, payloadOf, conn, hook, watcherUp,
                   events, queue, scan, worker, procLog, dbOps, enqFailed,
                   epoch, orphaned, srv, db, tx, reader, probe,
                   ext>>

\* A client writes bytes of its own making and hangs up
FrameForge ==
    /\ ~wire.closed
    /\ Len(wire.sent) < MaxWireFrames
    /\ \E f \in Forged :
         wire' = [wire EXCEPT
                    !.bytes = wire.bytes \o ForgedBytes(f),
                    !.sent = Append(wire.sent, f),
                    !.closed = TRUE]
    /\ UNCHANGED <<files, nextId, dropped, payloadOf, conn, hook, watcherUp,
                   events, queue, scan, worker, procLog, dbOps, enqFailed,
                   epoch, orphaned, srv, db, tx, reader, probe,
                   ext>>

\* The client closes the stream
FrameClose ==
    /\ ~wire.closed
    /\ wire' = [wire EXCEPT !.closed = TRUE]
    /\ UNCHANGED <<files, nextId, dropped, payloadOf, conn, hook, watcherUp,
                   events, queue, scan, worker, procLog, dbOps, enqFailed,
                   epoch, orphaned, srv, db, tx, reader, probe,
                   ext>>

\* The reader calls read_frame_async once more; it stops at the first error
FrameRead ==
    /\ wire.closed
    /\ IF reader.got = <<>> THEN TRUE ELSE Last(reader.got).tag = "Ok"
    /\ LET r == read_frame(wire.bytes, reader.pos, wire.limits.header,
                           wire.limits.body)
       IN reader' = [pos |-> r.pos, got |-> Append(reader.got, r)]
    /\ UNCHANGED <<files, nextId, dropped, payloadOf, conn, hook, watcherUp,
                   events, queue, scan, worker, procLog, dbOps, enqFailed,
                   epoch, orphaned, srv, db, tx, wire, probe,
                   ext>>

NextFrame == FrameWrite \/ FrameForge \/ FrameClose \/ FrameRead

FrameSpec == FrameInit /\ [][NextFrame]_vars

----------------------------------------------------------------------------
\* The status mapping applied to one ParsedBounce.

ProbeInputs ==
    {ParsedBounce("h1", c, a, None, None) : c \in ProbeCodes, a \in ProbeActions}

StatusInit ==
    /\ PipelineInit
    /\ RunningInit
    /\ wire = WireStart(ServerLimits)
    /\ reader = ReaderStart
    /\ probe \in {[NoProbe EXCEPT !.parsed = p] : p \in ProbeInputs}
    /\ ExtInit

StatusMap ==
    /\ ~probe.done
    /\ probe' = [probe EXCEPT !.mapped = map_mail_message_status(probe.parsed),
                              !.done = TRUE]
    /\ UNCHANGED <<files, nextId, dropped, payloadOf, conn, hook, watcherUp,
                   events, queue, scan, worker, procLog, dbOps, enqFailed,
                   epoch, orphaned, srv, db, tx, wire, reader,
                   ext>>

NextStatus == StatusMap

StatusSpec == StatusInit /\ [][NextStatus]_vars

----------------------------------------------------------------------------
\* Database transactions of parallel tasks (spool workers, IMAP process tasks,
\* connection tasks), one statement per step.  A SELECT reads the committed
\* rows; the UPDATE of a mail_messages row holds that row until the
\* transaction ends; the writes of a transaction appear at its commit.

OpenTx == {t \in Tasks : tx[t].pc # "idle"}

\* The task holds the row of mail_messages it has updated
HoldsMessage(t, message_id) ==
    /\ message_id # 0
    /\ tx[t].message_id = message_id
    /\ tx[t].pc \in {"select_exists", "commit"}

\* pool.begin()
TxBegin(t) ==
    /\ tx[t].pc = "idle"
    /\ dbOps + Cardinality(OpenTx) < MaxTx
    /\ \E op \in {"upsert_bounce", "apply_observer_event"} :
       \E p \in IF op = "upsert_bounce" THEN DbBounces
                ELSE {as_parsed_bounce(e) : e \in DbEvents} :
          tx' = [tx EXCEPT ![t] = [TxIdle EXCEPT !.pc = "select_message",
                                                 !.op = op, !.parsed = p]]
    /\ UNCHANGED <<files, nextId, dropped, payloadOf, conn, hook, watcherUp,
                   events, queue, scan, worker, procLog, dbOps, enqFailed,
                   epoch, orphaned, srv, db, wire, reader, probe,
                   ext>>

\* SELECT id FROM mail_messages WHERE hash = ? LIMIT 1
TxSelectMessage(t) ==
    /\ tx[t].pc = "select_message"
    /\ LET message_id == SelectMessageId(db, tx[t].parsed.hash)
           status == map_mail_message_status(tx[t].parsed)
       IN tx' = [tx EXCEPT ![t].message_id = message_id,
                           ![t].pc =
                               IF message_id # 0 THEN "update_message"
                               ELSE IF tx[t].op = "apply_observer_event"
                               THEN "commit"
                               ELSE IF status = MAIL_STATUS_SUCCESS
                               THEN "commit"
                               ELSE "select_exists"]
    /\ UNCHANGED <<files, nextId, dropped, payloadOf, conn, hook, watcherUp,
                   events, queue, scan, worker, procLog, dbOps, enqFailed,
                   epoch, orphaned, srv, db, wire, reader, probe,
                   ext>>

\* UPDATE mail_messages SET status = ?, updated_at = NOW() WHERE ...
TxUpdateMessage(t) ==
    /\ tx[t].pc = "update_message"
    /\ \A u \in Tasks \ {t} : ~HoldsMessage(u, tx[t].message_id)
    /\ tx' = [tx EXCEPT ![t].pc =
                 IF map_mail_message_status(tx[t].parsed) = MAIL_STATUS_SUCCESS
                 THEN "commit" ELSE "select_exists"]
    /\ UNCHANGED <<files, nextId, dropped, payloadOf, conn, hook, watcherUp,
                   events, queue, scan, worker, procLog, dbOps, enqFailed,
                   epoch, orphaned, srv, db, wire, reader, probe,
                   ext>>

\* SELECT 1 FROM mail_message_bounces / mail_bounces WHERE ... LIMIT 1
TxSelectExists(t) ==
    /\ tx[t].pc = "select_exists"
    /\ tx' = [tx EXCEPT ![t].exists =
                            SelectExists(db, tx[t].parsed, tx[t].message_id),
                        ![t].pc = "commit"]
    /\ UNCHANGED <<files, nextId, dropped, payloadOf, conn, hook, watcherUp,
                   events, queue, scan, worker, procLog, dbOps, enqFailed,
                   epoch, orphaned, srv, db, wire, reader, probe,
                   ext>>

\* The UPDATE or INSERT on the bounce table, then tx.commit()
TxCommit(t) ==
    /\ tx[t].pc = "commit"
    /\ db' = Commit(ApplyWrites(db, tx[t].op, tx[t].parsed, tx[t].message_id,
                                tx[t].exists))
    /\ dbOps' = dbOps + 1
    /\ tx' = [tx EXCEPT ![t].pc = "idle",
                        ![t].ret =
                            IF tx[t].op = "apply_observer_event" THEN "Ok"
                            ELSE IF tx[t].message_id # 0
                            THEN "UpdatedLocalMessage"
                            ELSE "MissingLocalMessage"]
    /\ UNCHANGED <<files, nextId, dropped, payloadOf, conn, hook, watcherUp,
                   events, queue, scan, worker, procLog, enqFailed,
                   epoch, orphaned, srv, wire, reader, probe,
                   ext>>

\* A statement or the commit fails: `?` returns the error and the dropped
\* transaction is rolled back
TxFail(t) ==
    /\ tx[t].pc # "idle"
    /\ tx' = [tx EXCEPT ![t].pc = "idle", ![t].ret = "Err"]
    /\ UNCHANGED <<files, nextId, dropped, payloadOf, conn, hook, watcherUp,
                   events, queue, scan, worker, procLog, dbOps, enqFailed,
                   epoch, orphaned, srv, db, wire, reader, probe,
                   ext>>

NextDb ==
    \E t \in Tasks :
        \/ TxBegin(t)
        \/ TxSelectMessage(t)
        \/ TxUpdateMessage(t)
        \/ TxSelectExists(t)
        \/ TxCommit(t)
        \/ TxFail(t)

DbSpec == Init /\ [][NextDb]_vars

----------------------------------------------------------------------------
\* The ingest daemon: main(), run_tcp_server and the tasks it spawns.

\* Clients of the accept loop: a heartbeat, a mail, an observer event for an
\* unknown hash, a frame with a wrong magic, a clean hang-up and a reset
ClientInputs ==
    {Frame(MAGIC, HeaderLen(h), Len(b), h, b, 5, FALSE, "UnexpectedEof") :
        h \in {"heartbeat", "absent", "observer_event"}, b \in {<<"U">>}}
    \cup {Frame("XXXX", 29, 2, "absent", <<"D", "O">>, 5, FALSE,
                "UnexpectedEof"),
          Frame(MAGIC, 29, 2, "absent", <<"D", "O">>, 0, FALSE,
                "UnexpectedEof"),
          Frame(MAGIC, 29, 2, "absent", <<"D", "O">>, 0, FALSE, "TimedOut")}

ServerInit ==
    /\ PipelineInit
    /\ conn = [c \in Conns |-> ConnPending]
    /\ srv = SrvBoot
    /\ wire = WireStart(ServerLimits)
    /\ reader = ReaderStart
    /\ probe = NoProbe
    /\ ExtInit

\* main(): Config::load, ensure_dirs, Database::connect, then
\* TcpListener::bind in run_tcp_server; each failure returns from main
SrvStartup ==
    /\ srv.pc \in {"load", "ensure_dirs", "connect", "bind"}
    /\ \E ok \in BOOLEAN :
         srv' = IF ok
                THEN [srv EXCEPT !.pc =
                        CASE srv.pc = "load" -> "ensure_dirs"
                          [] srv.pc = "ensure_dirs" -> "connect"
                          [] srv.pc = "connect" -> "bind"
                          [] srv.pc = "bind" -> "accept"]
                ELSE [srv EXCEPT !.pc = "stopped", !.cause = srv.pc]
    /\ UNCHANGED <<files, nextId, dropped, payloadOf, conn, hook, watcherUp,
                   events, queue, scan, worker, procLog, dbOps, enqFailed,
                   epoch, orphaned, db, tx, wire, reader, probe,
                   ext>>

\* listener.accept(): a stream for a spawned handle_client task, or an error
\* that `?` returns from run_tcp_server and so from main
SrvAccept(c) ==
    /\ srv.pc = "accept"
    /\ conn[c].pc = "pending"
    /\ \E ok \in BOOLEAN :
         IF ok
         THEN /\ conn' = [conn EXCEPT ![c] = ConnStart]
              /\ srv' = [srv EXCEPT !.late =
                            IF srv.warned = {} THEN srv.late
                            ELSE srv.late \cup {c}]
         ELSE /\ srv' = [srv EXCEPT !.pc = "stopped", !.cause = "accept"]
              /\ UNCHANGED conn
    /\ UNCHANGED <<files, nextId, dropped, payloadOf, hook, watcherUp,
                   events, queue, scan, worker, procLog, dbOps, enqFailed,
                   epoch, orphaned, db, tx, wire, reader, probe,
                   ext>>

TaskResultPropagated(s, c, ret) ==
    IF ret = "err" THEN [s EXCEPT !.pc = "stopped", !.cause = "client"]
    ELSE s

\* What the result of handle_client does to the server: an Err is logged
TaskResult(s, c, ret) ==
    IF ret = "err" THEN [s EXCEPT !.warned = s.warned \cup {c}] ELSE s

\* The spawned task ends: `if let Err(err) = handle_client(..) { warn! }`
ConnReport(c) ==
    /\ srv.pc = "accept"
    /\ conn[c].pc = "closed"
    /\ conn' = [conn EXCEPT ![c].pc = "done"]
    /\ srv' = TaskResult(srv, c, conn[c].ret)
    /\ UNCHANGED <<files, nextId, dropped, payloadOf, hook, watcherUp,
                   events, queue, scan, worker, procLog, dbOps, enqFailed,
                   epoch, orphaned, db, tx, wire, reader, probe,
                   ext>>

\* A handle_client task reads the next frame of its client
ConnReadClient(c) == ConnReadFrom(c, ClientInputs)

\* The tasks run as long as main() has not returned
NextServer ==
    \/ SrvStartup
    \/ \E c \in Conns : SrvAccept(c)
    \/ \E c \in Conns : ConnReport(c)
    \/ srv.pc = "accept" /\ \E c \in Conns : ConnReadClient(c)
    \/ srv.pc = "accept" /\ \E c \in Conns : ConnApply(c)
    \/ srv.pc = "accept" /\ \E c \in Conns : ConnEnqCreate(c)
    \/ srv.pc = "accept" /\ \E c \in Conns : ConnEnqWrite(c)
    \/ srv.pc = "accept" /\ \E c \in Conns : ConnEnqSync(c)
    \/ srv.pc = "accept" /\ \E c \in Conns : ConnEnqRename(c)
    \/ srv.pc = "accept" /\ \E c \in Conns : ConnAck(c)

ServerSpec == ServerInit /\ [][NextServer]_vars

----------------------------------------------------------------------------
\* run_imap_poll_once

ImapInit ==
    /\ PipelineInit
    /\ RunningInit
    /\ wire = WireStart(ServerLimits)
    /\ reader = ReaderStart
    /\ probe = NoProbe
    /\ watcherUp
    /\ imap \in ImapStarts
    /\ obs = ObsIdle
    /\ pub = PubIdle
    /\ sd = SdIdle

ImapUnchanged ==
    UNCHANGED <<files, nextId, dropped, payloadOf, conn, hook, watcherUp,
                events, queue, scan, worker, procLog, dbOps, enqFailed,
                epoch, orphaned, srv, tx, wire, reader, probe, obs, pub, sd>>

\* The position in the loop after a spawn: collect one result when the
\* JoinSet has reached process_concurrency
AfterSpawn(loop, processing) ==
    IF Cardinality(processing)
          >= process_concurrency(imap.max_messages_per_poll)
    THEN (IF loop = "fetch" THEN "fetch_collect" ELSE "fallback_collect")
    ELSE loop

\* open_imap_session, SELECT, UID SEARCH, sort, truncate, UID FETCH
ImapPollStart ==
    /\ imap.pc = "idle"
    /\ \E ok \in BOOLEAN :
         LET uids == SelectUids(Len(imap.mails), imap.max_messages_per_poll)
         IN
         imap' = IF ~ok THEN [imap EXCEPT !.pc = "done", !.ret = "Err"]
                 ELSE IF uids = <<>>
                 THEN [imap EXCEPT !.pc = "done", !.ret = "Ok"]
                 ELSE [imap EXCEPT !.pc = "fetch", !.uids = uids]
    /\ UNCHANGED db
    /\ ImapUnchanged

\* One turn of `while let Some(fetch) = fetches.try_next().await?`
ImapFetchItem ==
    /\ imap.pc = "fetch"
    /\ IF imap.next > Len(imap.uids)
       THEN imap' = [imap EXCEPT !.next = 1,
                        !.pc = IF imap.fetched_items = 0 THEN "fallback"
                               ELSE "drain"]
       ELSE \E how \in IF imap.reliable THEN {"ok"}
                       ELSE {"ok", "no_body", "no_uid", "absent"} :
              LET uid == imap.uids[imap.next] IN
              imap' =
                IF how = "absent" THEN [imap EXCEPT !.next = imap.next + 1]
                ELSE IF how # "ok"
                THEN [imap EXCEPT !.next = imap.next + 1,
                                  !.fetched_items = imap.fetched_items + 1]
                ELSE [imap EXCEPT !.next = imap.next + 1,
                         !.fetched_items = imap.fetched_items + 1,
                         !.processing = imap.processing \cup {uid},
                         !.pc = AfterSpawn("fetch",
                                           imap.processing \cup {uid})]
    /\ UNCHANGED db
    /\ ImapUnchanged

\* try_next() returns an error: `?` leaves run_imap_poll_once, the JoinSet
\* and the results collected so far are dropped
ImapStreamError ==
    /\ imap.pc = "fetch"
    /\ ~imap.reliable
    /\ imap' = [imap EXCEPT !.pc = "done", !.ret = "Err", !.processing = {}]
    /\ UNCHANGED db
    /\ ImapUnchanged

\* One turn of the per-UID fallback loop: fetch_single_message_body
ImapFallbackItem ==
    /\ imap.pc = "fallback"
    /\ IF imap.next > Len(imap.uids)
       THEN imap' = [imap EXCEPT !.pc = "drain"]
       ELSE \E fetched \in {"body", "none", "err"} :
              LET uid == imap.uids[imap.next] IN
              imap' =
                IF fetched # "body" THEN [imap EXCEPT !.next = imap.next + 1]
                ELSE [imap EXCEPT !.next = imap.next + 1,
                         !.fetched_items = imap.fetched_items + 1,
                         !.processing = imap.processing \cup {uid},
                         !.pc = AfterSpawn("fallback",
                                           imap.processing \cup {uid})]
    /\ UNCHANGED db
    /\ ImapUnchanged

\* collect_one_process_result: join_next() returns the result of whichever
\* task finishes first
ImapCollect ==
    /\ imap.pc \in {"fetch_collect", "fallback_collect", "drain"}
    /\ \E uid \in imap.processing : \E dbOk \in BOOLEAN :
         LET r == process_fetched_message(imap.mails[uid], db, dbOk) IN
         /\ db' = r.db
         /\ imap' = [imap EXCEPT
                !.processing = imap.processing \ {uid},
                !.result[uid] = r.result,
                !.seen_uids =
                    IF collect_marks(r.result, imap.mark_seen_if_not_exist)
                    THEN imap.seen_uids \cup {uid} ELSE imap.seen_uids,
                !.pc = CASE imap.pc = "fetch_collect" -> "fetch"
                         [] imap.pc = "fallback_collect" -> "fallback"
                         [] OTHER -> "drain"]
    /\ ImapUnchanged

\* mark_seen_uids (UID STORE +FLAGS (\Seen)) when seen_uids is not empty,
\* then logout
ImapStore ==
    /\ imap.pc = "drain"
    /\ imap.processing = {}
    /\ IF imap.seen_uids = {}
       THEN imap' = [imap EXCEPT !.pc = "done", !.ret = "Ok"]
       ELSE \E ok \in BOOLEAN :
              imap' = [imap EXCEPT !.pc = "done",
                          !.store = [sent |-> TRUE, uids |-> imap.seen_uids],
                          !.ret = IF ok THEN "Ok" ELSE "Err"]
    /\ UNCHANGED db
    /\ ImapUnchanged

NextImap ==
    \/ ImapPollStart
    \/ ImapFetchItem
    \/ ImapStreamError
    \/ ImapFallbackItem
    \/ ImapCollect
    \/ ImapStore

ImapSpec == ImapInit /\ [][NextImap]_vars

----------------------------------------------------------------------------

\* The spool and its dispatcher, fed by the hook, by raw-mail frames and by
\* other programs, across crashes
NextSpool ==
    \/ HookStart
    \/ HookWrite
    \/ HookSync
    \/ HookRename
    \/ NotifyWatcher
    \/ ScanTick
    \/ ScanPush
    \/ \E w \in Workers : WorkerRecv(w)
    \/ \E w \in Workers : WorkerClaim(w)
    \/ \E w \in Workers : WorkerProcess(w)
    \/ \E w \in Workers : WorkerFinalize(w)
    \/ \E w \in Workers : WorkerWarn(w)

\* The frame loop of the TCP ingest server
NextConn ==
    \/ \E c \in Conns : ConnRead(c)
    \/ \E c \in Conns : ConnApply(c)
    \/ \E c \in Conns : ConnEnqCreate(c)
    \/ \E c \in Conns : ConnEnqWrite(c)
    \/ \E c \in Conns : ConnEnqSync(c)
    \/ \E c \in Conns : ConnEnqRename(c)
    \/ \E c \in Conns : ConnAck(c)

\* The same with files that other programs leave in incoming/
NextOpenSpool == NextSpool \/ ExternalDrop

\* The same with crashes of the machine
NextCrash == NextSpool \/ Crash

Next == NextSpool \/ NextConn \/ ExternalDrop \/ Crash

Spec == Init /\ [][Next]_vars

SpoolSpec == Init /\ [][NextSpool]_vars

OpenSpoolSpec == Init /\ [][NextOpenSpool]_vars

CrashSpec == Init /\ [][NextCrash]_vars

ConnSpec == Init /\ [][NextConn]_vars

TypeOK ==
    /\ nextId \in 0..MaxIds
    /\ epoch \in 0..MaxCrashes
    /\ Len(queue) <= process_queue_capacity
    /\ \A f \in files : f.dir \in Dirs

----------------------------------------------------------------------------
\* Properties

Copies(n) == {f \in files : f.name = n}

\* The enqueue that owns id i has started and has not yet returned
InFlight(i) ==
    \/ hook.pc # "idle" /\ hook.id = i
    \/ \E c \in Conns :
         /\ conn[c].id = i
         /\ conn[c].pc \in {"enq_create", "enq_write", "enq_sync",
                            "enq_rename"}

Holding(w) == worker[w].pc \in {"process", "finalize"}

\* C1: single-processing.  In one run no spool file is read, parsed and
\* upserted more than once, two workers never hold the same file, and a
\* worker whose rename finds nothing in incoming/ goes back to waiting
\* without a warning and without touching the spool, the database or the
\* processing history.
C1_SingleProcessing ==
    /\ [](/\ \A e \in procLog : e.ord = 1
          /\ \A w1, w2 \in Workers :
               (w1 # w2 /\ Holding(w1) /\ Holding(w2))
                   => worker[w1].path # worker[w2].path
          /\ \A w \in Workers :
               worker[w].pc = "process"
                   => Exists(files, "processing", worker[w].path))
    /\ [][\A w \in Workers :
            (/\ worker[w].pc = "claim"
             /\ is_eml_file(worker[w].path)
             /\ ~Exists(files, "incoming", worker[w].path)
             /\ worker'[w] # worker[w])
                => /\ worker'[w] = WorkerIdle
                   /\ UNCHANGED <<files, dbOps, procLog, queue>>]_vars

\* C1 witness: one worker has claimed a file and is processing it while
\* another worker holds the same path and is about to try its rename.
C1_Witness ==
    \E w1, w2 \in Workers :
        /\ w1 # w2
        /\ worker[w1].pc = "process"
        /\ worker[w2].pc = "claim"
        /\ worker[w2].path = worker[w1].path

\* C2: every spool file whose enqueue completed is in exactly one of
\* incoming/, processing/, done/, failed/ in every reachable state, and no
\* state holds two entries of one spool file (a move is one rename).
C2_DirectoryExclusivity ==
    /\ \A f \in files : f.dir \in Dirs
    /\ \A i \in 1..nextId :
         /\ Cardinality(Copies(SpoolFileName(i))) <= 1
         /\ (i \notin enqFailed /\ ~InFlight(i))
                => Cardinality(Copies(SpoolFileName(i))) = 1

\* C2 witness: a spool file has gone through every move and sits in done/.
C2_Witness ==
    \E f \in files : f.dir = "done" /\ EndsWithEml(f.name)

DispatcherIdle ==
    /\ queue = <<>>
    /\ events = {}
    /\ scan.pc = "sleep"
    /\ \A w \in Workers : worker[w].pc = "recv"

\* C3: crash recovery from processing/.  After a restart, a file that the
\* crash left in processing/ is picked up by the periodic scan: while the
\* dispatcher is idle and the file is still there, a scan tick finds
\* something to push.
C3_CrashRecovery ==
    \A n \in orphaned :
        (Exists(files, "processing", n) /\ DispatcherIdle)
            => ENABLED <<ScanTick>>_vars

TmpCopies(i) ==
    {f \in files : f.name \in {SpoolTmpName(i), HookTmpName(i)}}

\* C4: spool atomicity.  A file with final extension .eml always holds
\* exactly the payload of its enqueue, and an enqueue that has returned has
\* left either that one .eml file or no new file at all.
C4_SpoolAtomicity ==
    \A i \in 1..nextId :
        /\ \A f \in Copies(SpoolFileName(i)) : f.data = payloadOf[i]
        /\ ~InFlight(i) =>
             \/ Cardinality(Copies(SpoolFileName(i))) = 1 /\ TmpCopies(i) = {}
             \/ Copies(SpoolFileName(i)) = {} /\ TmpCopies(i) = {}

\* C5: enqueue failure cleanup.  After an enqueue has returned an error,
\* incoming/ holds neither its temp file nor its final file.
C5_EnqueueFailureCleanup ==
    \A i \in enqFailed :
        ~InFlight(i) => Copies(SpoolFileName(i)) \cup TmpCopies(i) = {}

Visible(n) == ~BeginsWithDot(n) /\ EndsWithEml(n)

\* C6: dispatcher visibility filter.  No path in the channel, no path a
\* worker has claimed and no file in processing/ has a name that begins
\* with '.' or does not end in .eml.
C6_VisibilityFilter ==
    /\ \A i \in 1..Len(queue) : Visible(queue[i])
    /\ \A w \in Workers : Holding(w) => Visible(worker[w].path)
    /\ \A f \in files : f.dir = "processing" => Visible(f.name)

NeedsEffect(kind) == kind \notin {"heartbeat", "register"}

IsMailKind(kind) == kind \notin {"heartbeat", "register", "observer_event"}

\* C7: the ACK follows the effect.  Every ACK in a connection's history is
\* preceded by the completed effect of its frame (raw mail: the payload is
\* fsynced under its final name; observer_event: a committed transaction),
\* no frame is ACKed twice, every frame whose loop iteration completed is
\* ACKed, and an enqueue that failed is never ACKed.
C7_AckFollowsEffect ==
    /\ \A c \in Conns :
         LET log == conn[c].log IN
         /\ \A i \in DOMAIN log :
              log[i].ev = "ack" =>
                /\ NeedsEffect(log[i].kind) =>
                     \E j \in 1..(i - 1) :
                        log[j].ev = "effect" /\ log[j].k = log[i].k
                /\ IsMailKind(log[i].kind) =>
                     /\ log[i].id \notin enqFailed
                     /\ \E f \in Copies(SpoolFileName(log[i].id)) :
                          f.data = payloadOf[log[i].id] /\ f.synced
                /\ \A j \in DOMAIN log :
                     (log[j].ev = "ack" /\ log[j].k = log[i].k) => j = i
         /\ \A k \in 1..conn[c].k :
              (k < conn[c].k \/ conn[c].pc = "read")
                  => \E i \in DOMAIN log : log[i].ev = "ack" /\ log[i].k = k
    /\ Cardinality({ci \in Conns \X (1..(3 * (MaxFrames + 1))) :
            /\ ci[2] \in DOMAIN conn[ci[1]].log
            /\ conn[ci[1]].log[ci[2]].ev = "effect"
            /\ conn[ci[1]].log[ci[2]].kind = "observer_event"}) <= dbOps

\* C7 witness: a raw-mail frame has been ACKed.
C7_Witness ==
    \E c \in Conns : \E i \in DOMAIN conn[c].log :
        conn[c].log[i].ev = "ack" /\ IsMailKind(conn[c].log[i].kind)

\* C8: per-connection ordering.  The history of a connection lists its
\* frames in arrival order; the effect and the ACK of frame k come before
\* frame k+1 is read, so the ACKs come in the order of the frames.
C8_PerConnectionOrder ==
    \A c \in Conns :
        LET log == conn[c].log IN
        /\ \A i, j \in DOMAIN log : i < j => log[i].k <= log[j].k
        /\ \A j \in DOMAIN log :
             log[j].ev = "read" =>
               /\ log[j].k = 1 + Cardinality({i \in 1..(j - 1) :
                                                 log[i].ev = "read"})
               /\ \A k \in 1..(log[j].k - 1) :
                    \E i \in 1..(j - 1) : log[i].ev = "ack" /\ log[i].k = k
        /\ \A i \in DOMAIN log :
             log[i].ev \in {"effect", "ack"} =>
               \E j \in 1..(i - 1) : log[j].ev = "read" /\ log[j].k = log[i].k
        /\ \A i, j \in DOMAIN log :
             (log[i].ev = "effect" /\ log[j].ev = "ack"
                 /\ log[i].k = log[j].k) => i < j

\* C8 witness: two frames of one connection have both been ACKed.
C8_Witness ==
    \E c \in Conns : \E i, j \in DOMAIN conn[c].log :
        /\ conn[c].log[i].ev = "ack" /\ conn[c].log[i].k = 1
        /\ conn[c].log[j].ev = "ack" /\ conn[c].log[j].k = 2

\* C9: EOF semantics.  When the stream ended while a frame was being read,
\* the connection ends cleanly (Ok) if not one byte of the frame had
\* arrived, and with an error if part of the frame had arrived.
C9_EofSemantics ==
    \A c \in Conns :
        (conn[c].pc = "closed" /\ conn[c].rd = "UnexpectedEof")
            => (conn[c].ret = "ok" <=> ~MidFrame(conn[c].inp))

\* What the wire carried, read off the input alone
BadMagic(i) == i.avail >= 1 /\ i.magic # MAGIC

OversizeHeader(i) ==
    i.avail >= 2 /\ i.magic = MAGIC /\ i.header_len > MAX_HEADER_LEN

OversizeBody(i) ==
    /\ i.avail >= 3 /\ i.magic = MAGIC
    /\ i.header_len <= MAX_HEADER_LEN
    /\ i.body_len > MAX_BODY_LEN

BadHeaderJson(i) ==
    /\ i.avail >= 3 /\ i.magic = MAGIC
    /\ i.header_len <= MAX_HEADER_LEN /\ i.body_len <= MAX_BODY_LEN
    /\ i.header_len > 0 => i.avail >= 4
    /\ i.body_len > 0 => i.avail >= 5
    /\ i.header \in {"invalid", "empty"}

FramingBad(i) ==
    BadMagic(i) \/ OversizeHeader(i) \/ OversizeBody(i) \/ BadHeaderJson(i)

Done(log) == {i \in DOMAIN log : log[i].ev \in {"effect", "ack"}}

\* C10: framing errors drop the connection.  A frame with a wrong magic, an
\* oversize header or body length, or a header that is not header JSON ends
\* the connection with an error; reading it changes neither the spool nor
\* the database and adds no effect and no ACK; a closed connection never
\* does anything again.
C10_FramingErrorsDrop ==
    /\ [](\A c \in Conns :
            FramingBad(conn[c].inp)
                => conn[c].pc = "closed" /\ conn[c].ret = "err")
    /\ [][\A c \in Conns :
            /\ (conn[c].pc = "read" /\ conn'[c] # conn[c]
                    /\ FramingBad(conn'[c].inp))
                 => /\ UNCHANGED <<files, dbOps, nextId>>
                    /\ Done(conn'[c].log) = Done(conn[c].log)
            /\ conn[c].pc = "closed" => conn'[c] = conn[c]]_vars

\* C10 witness: a connection that had a frame ACKed was then closed by a
\* framing error.
C10_Witness ==
    \E c \in Conns :
        /\ conn[c].pc = "closed"
        /\ FramingBad(conn[c].inp)
        /\ \E i \in DOMAIN conn[c].log : conn[c].log[i].ev = "ack"

\* The i-th frame on the stream arrived whole
Whole(f) ==
    /\ f.magic = MagicBytes
    /\ Len(f.header) = f.header_len
    /\ Len(f.body) = f.body_len

WithinLimits(f) ==
    f.header_len <= wire.limits.header /\ f.body_len <= wire.limits.body

\* C11: decode size limits.  A frame with the right magic is rejected with
\* HeaderTooLarge exactly when its declared header length exceeds
\* max_header_len, and otherwise with BodyTooLarge exactly when its declared
\* body length exceeds max_body_len; the reader has then consumed only the
\* magic and the length fields it had to read; a whole frame whose lengths
\* equal the limits is accepted.
C11_DecodeSizeLimits ==
    \A i \in DOMAIN reader.got :
        (i <= Len(wire.sent) /\ wire.sent[i].magic = MagicBytes) =>
            LET r == reader.got[i]
                f == wire.sent[i]
            IN
            /\ r.tag = "HeaderTooLarge"
                   <=> f.header_len > wire.limits.header
            /\ r.tag = "BodyTooLarge"
                   <=> (/\ f.header_len <= wire.limits.header
                        /\ f.body_len > wire.limits.body)
            /\ r.tag = "HeaderTooLarge" => r.pos = r.from + 8
            /\ r.tag = "BodyTooLarge" => r.pos = r.from + 16
            /\ (/\ Whole(f)
                /\ f.header_len = wire.limits.header
                /\ f.body_len = wire.limits.body) => r.tag = "Ok"

\* C11 witness: with the limits of the ingest server, a frame whose header
\* length is exactly 64 KiB and whose body length is 25 MiB + 1 was
\* rejected with BodyTooLarge.
C11_Witness ==
    /\ wire.limits = ServerLimits
    /\ \E i \in DOMAIN reader.got :
         /\ i <= Len(wire.sent)
         /\ wire.sent[i].header_len = MAX_HEADER_LEN
         /\ wire.sent[i].body_len = MAX_BODY_LEN + 1
         /\ reader.got[i].tag = "BodyTooLarge"

RECURSIVE EncodedLen(_, _)
EncodedLen(sent, i) ==
    IF i = 0 THEN 0
    ELSE EncodedLen(sent, i - 1) + 16 + sent[i].header_len + sent[i].body_len

\* C12: frame round trip.  When every frame written so far is whole and
\* within the limits, the i-th read returns exactly the i-th header and
\* body and leaves the reader right behind the i-th frame.
C12_FrameRoundTrip ==
    \A i \in DOMAIN reader.got :
        (/\ i <= Len(wire.sent)
         /\ \A j \in 1..i : Whole(wire.sent[j]) /\ WithinLimits(wire.sent[j]))
            => /\ reader.got[i].tag = "Ok"
               /\ reader.got[i].header = wire.sent[i].header
               /\ reader.got[i].body = wire.sent[i].body
               /\ reader.got[i].pos = EncodedLen(wire.sent, i)

\* C12 witness: the second frame of a stream, whose header is non-empty and
\* whose body is the four magic bytes, was decoded.
C12_Witness ==
    /\ Len(reader.got) >= 2
    /\ reader.got[2].tag = "Ok"
    /\ reader.got[2].header # <<>>
    /\ reader.got[2].body = MagicBytes

----------------------------------------------------------------------------
\* Status mapping.

\* The action rule of the mapping, with the action compared letter for
\* letter: 7 or 3 when it decides, 0 when the status code decides.
ActionRuleExact(action) ==
    IF action \in {Some(Delivered), Some(SentWord)} THEN 7
    ELSE IF action \in {Some(Delayed), Some(Deferred)} THEN 3
    ELSE 0

\* The spellings of a lower-case word in which any letter may be a capital
Spellings(word) ==
    {s \in [DOMAIN word -> {word[i] : i \in DOMAIN word}
                             \cup {UpperCase[i] : i \in DOMAIN UpperCase}] :
        \A i \in DOMAIN word :
            \/ s[i] = word[i]
            \/ \E k \in DOMAIN LowerCase :
                  LowerCase[k] = word[i] /\ UpperCase[k] = s[i]}

\* The action rule with the action compared without regard to ASCII case
ActionRuleAnyCase(action) ==
    IF action.some /\ Len(action.val) \in {4, 9}
       /\ action.val \in Spellings(Delivered) \cup Spellings(SentWord) THEN 7
    ELSE IF action.some /\ Len(action.val) \in {7, 8}
            /\ action.val \in Spellings(Delayed) \cup Spellings(Deferred)
    THEN 3
    ELSE 0

\* The status-code rule of the mapping
CodeRule(code) ==
    IF code \in {<<"5", ".", "7", ".", "0">>, <<"5", ".", "7", ".", "1">>,
                 <<"5", ".", "7", ".", "2">>, <<"5", ".", "7", ".", "3">>}
    THEN -2
    ELSE IF Len(code) >= 2 /\ code[1] = "2" /\ code[2] = "." THEN 7
    ELSE IF Len(code) >= 2 /\ code[1] = "4" /\ code[2] = "." THEN 3
    ELSE -7

\* C18 (as stated): the mapped status is 7 for action delivered or sent, 3
\* for action delayed or deferred, and otherwise decided by the status code
\* (5.7.0-5.7.3: -2, prefix "2.": 7, prefix "4.": 3, else -7).
C18_StatusMappingExact ==
    probe.done =>
        probe.mapped =
            IF ActionRuleExact(probe.parsed.action) # 0
            THEN ActionRuleExact(probe.parsed.action)
            ELSE CodeRule(probe.parsed.status_code)

\* C18 (amended): the same mapping with the action compared without regard
\* to ASCII case; the action rule precedes the status-code rule and the
\* result is one of 7, 3, -2, -7.
C18_StatusMapping ==
    probe.done =>
        /\ probe.mapped =
              IF ActionRuleAnyCase(probe.parsed.action) # 0
              THEN ActionRuleAnyCase(probe.parsed.action)
              ELSE CodeRule(probe.parsed.status_code)
        /\ probe.mapped \in {7, 3, -2, -7}

\* An action that decides against a status code that would decide otherwise
C18_Witness ==
    /\ probe.done
    /\ probe.parsed.action = Some(Delayed)
    /\ probe.parsed.status_code = <<"5", ".", "7", ".", "1">>
    /\ probe.mapped = 3

----------------------------------------------------------------------------
\* Database gateway.

\* C17: after any interleaving of upsert_bounce and apply_observer_event
\* transactions, mail_message_bounces holds at most one row per message_id
\* and mail_bounces at most one row per hash.
C17_OneBounceRowPerKey ==
    /\ \A r1, r2 \in db.mail_message_bounces :
          r1.message_id = r2.message_id => r1 = r2
    /\ \A r1, r2 \in db.mail_bounces : r1.hash = r2.hash => r1 = r2

\* The three tables without created_at / updated_at
Tables(d) ==
    [mail_messages |->
        {[id |-> m.id, hash |-> m.hash, status |-> m.status] :
            m \in d.mail_messages},
     mail_message_bounces |->
        {[row |-> r.row, message_id |-> r.message_id, action |-> r.action,
          status_code |-> r.status_code, description |-> r.description] :
            r \in d.mail_message_bounces},
     mail_bounces |->
        {[row |-> r.row, hash |-> r.hash, recipient |-> r.recipient,
          action |-> r.action, status_code |-> r.status_code,
          description |-> r.description] : r \in d.mail_bounces}]

\* C16: from every database state, upsert_bounce(p) run twice in sequence
\* leaves the three tables as one run does (created_at / updated_at aside)
\* and returns the same outcome both times; likewise apply_observer_event.
C16_Idempotence ==
    /\ \A p \in DbBounces :
          LET once == upsert_bounce(db, p)
              twice == upsert_bounce(once.db, p)
          IN /\ Tables(twice.db) = Tables(once.db)
             /\ twice.ret = once.ret
    /\ \A e \in DbEvents :
          LET once == apply_observer_event(db, e)
              twice == apply_observer_event(once.db, e)
          IN /\ Tables(twice.db) = Tables(once.db)
             /\ twice.ret = once.ret

\* A database with rows in both bounce tables on which a first call still
\* changes a table and the second only refreshes a timestamp
C16_Witness ==
    /\ db.mail_message_bounces # {}
    /\ db.mail_bounces # {}
    /\ \E p \in DbBounces :
          /\ Tables(upsert_bounce(db, p).db) # Tables(db)
          /\ upsert_bounce(upsert_bounce(db, p).db, p).db
                # upsert_bounce(db, p).db
    /\ \E e \in DbEvents :
          Tables(apply_observer_event(db, e).db) # Tables(db)

\* C19: an upsert_bounce call for a hash without a mail_messages row returns
\* MissingLocalMessage; with mapped status SUCCESS it changes no row of any
\* table, otherwise exactly one mail_bounces row for the hash exists after it.
C19_NoOrphanForSuccess ==
    [][\A t \in Tasks :
          (/\ tx[t].pc = "commit"
           /\ tx'[t].pc = "idle"
           /\ tx'[t].ret # "Err"
           /\ tx[t].op = "upsert_bounce"
           /\ tx[t].message_id = 0)
          => /\ tx'[t].ret = "MissingLocalMessage"
             /\ IF map_mail_message_status(tx[t].parsed) = MAIL_STATUS_SUCCESS
                THEN /\ db'.mail_messages = db.mail_messages
                     /\ db'.mail_message_bounces = db.mail_message_bounces
                     /\ db'.mail_bounces = db.mail_bounces
                ELSE Cardinality({r \in db'.mail_bounces :
                                    r.hash = tx[t].parsed.hash}) = 1]_vars

----------------------------------------------------------------------------
\* Frame routing.

\* C13: frame routing by kind.  While a connection handles a heartbeat or
\* register frame neither the spool nor the database changes; while it
\* handles an observer_event frame the spool does not change and the database
\* changes only as Database.apply_observer_event changes it; while it handles
\* a frame of any other kind the database does not change, only the spool
\* file of that frame changes, and the enqueue ends with the frame's body in
\* one new spool file.
C13_FrameRouting ==
    [][\A c \in Conns :
          conn'[c] # conn[c] =>
            /\ conn'[c].kind \in {"heartbeat", "register"} =>
                 /\ files' = files /\ nextId' = nextId
                 /\ db' = db /\ dbOps' = dbOps
            /\ conn'[c].kind = "observer_event" =>
                 /\ files' = files /\ nextId' = nextId
                 /\ db' # db =>
                      /\ conn[c].pc = "apply"
                      /\ db' = apply_observer_event(
                                  db, from_slice(conn[c].body)).db
            /\ conn'[c].kind \notin {"heartbeat", "register",
                                     "observer_event"} =>
                 /\ db' = db /\ dbOps' = dbOps
                 /\ \A f \in (files' \ files) \cup (files \ files') :
                      /\ f.dir = "incoming"
                      /\ f.name \in {SpoolTmpName(conn'[c].id),
                                     SpoolFileName(conn'[c].id)}
                 /\ (conn[c].pc = "enq_rename" /\ conn'[c].pc = "ack") =>
                      /\ ~Exists(files, "incoming", SpoolFileName(conn[c].id))
                      /\ \E f \in files' :
                           /\ f.dir = "incoming"
                           /\ f.name = SpoolFileName(conn[c].id)
                           /\ f.data = conn[c].body
                           /\ files' \ files = {f}]_vars

\* One connection that had an observer event applied to the database and a
\* mail frame enqueued
C13_Witness ==
    \E c \in Conns : \E i, j \in DOMAIN conn[c].log :
        /\ conn[c].log[i].ev = "effect"
        /\ conn[c].log[i].kind = "observer_event"
        /\ conn[c].log[j].ev = "effect"
        /\ IsMailKind(conn[c].log[j].kind)
        /\ db.mail_message_bounces # {}
        /\ Exists(files, "incoming", SpoolFileName(conn[c].log[j].id))

\* C20: an observer event whose hash has no mail_messages row changes no
\* row of mail_messages, mail_message_bounces or mail_bounces, even for a
\* failed outcome; its transaction commits, apply_observer_event returns Ok
\* and the connection goes on to write the ACK.
C20_UnlinkedObserverNoOp ==
    [][\A c \in Conns :
          (/\ conn[c].pc = "apply"
           /\ conn'[c] # conn[c]
           /\ DecodesAsEvent(conn[c].body)
           /\ SelectMessageId(db, from_slice(conn[c].body).hash) = 0)
          => /\ db'.mail_messages = db.mail_messages
             /\ db'.mail_message_bounces = db.mail_message_bounces
             /\ db'.mail_bounces = db.mail_bounces
             /\ map_mail_message_status(
                    as_parsed_bounce(from_slice(conn[c].body)))
                  # MAIL_STATUS_SUCCESS
             /\ dbOps' = dbOps + 1 => conn'[c].pc = "ack"]_vars

\* The ACK of an observer event for an unknown hash has been written
C20_Witness ==
    \E c \in Conns :
        /\ conn[c].kind = "observer_event"
        /\ conn[c].body = <<"U">>
        /\ conn[c].log # <<>>
        /\ conn[c].log[Len(conn[c].log)].ev = "ack"
        /\ conn[c].log[Len(conn[c].log)].k = conn[c].k
        /\ dbOps >= 1

----------------------------------------------------------------------------
\* The ingest daemon.

\* C14: connection isolation.  When a connection's task ends with an error,
\* and when that error is logged, the accept loop stays as it was and every
\* other connection keeps its state; the accept loop never stops because of
\* a connection's error.
C14_ConnectionIsolation ==
    [][\A c \in Conns :
          (\/ conn[c].pc # "closed" /\ conn'[c].pc = "closed"
           \/ conn[c].pc = "closed" /\ conn'[c].pc = "done")
          => /\ srv'.pc = "accept"
             /\ srv'.cause = "none"
             /\ \A d \in Conns \ {c} : conn'[d] = conn[d]]_vars

\* Connection 1 failed on a frame and was logged; connection 2 was accepted
\* after that and had a mail frame enqueued and ACKed
C14_Witness ==
    /\ conn[1].pc = "done" /\ conn[1].ret = "err"
    /\ 1 \in srv.warned
    /\ 2 \in srv.late
    /\ \E i \in DOMAIN conn[2].log :
          conn[2].log[i].ev = "ack" /\ IsMailKind(conn[2].log[i].kind)

\* C15: no per-item error stops the accept loop: when the daemon has
\* stopped, it stopped at startup, not because of a connection or a frame.
C15_NoPerItemErrorStopsLoop ==
    srv.pc = "stopped" =>
        srv.cause \in {"load", "ensure_dirs", "connect", "bind"}

----------------------------------------------------------------------------
\* IMAP poller.

\* C21: mark-seen policy.  When a poll iteration has ended, a UID was in the
\* UID STORE command iff its process task's outcome is Processed,
\* IgnoredNotDelivery or IgnoredMissingHash, or MissingInDb with
\* mark_seen_if_not_exist; no other UID, fetched or not, was in it.
C21_MarkSeenPolicy ==
    imap.pc = "done" =>
        \A uid \in DOMAIN imap.mails :
            (imap.store.sent /\ uid \in imap.store.uids)
            <=> (\/ imap.result[uid] \in {"Processed", "IgnoredNotDelivery",
                                          "IgnoredMissingHash"}
                 \/ /\ imap.result[uid] = "MissingInDb"
                    /\ imap.mark_seen_if_not_exist)

----------------------------------------------------------------------------
\* Log observers: bouncer-observer's UDP listener and bouncer-journal's
\* journal watcher keep the same queue-id map, prune tick and bounded event
\* channel; the listener is modelled once.

\* Steps of the listener's clock, each MAPPING_TTL_FLOOR_SECS seconds long
MaxClock == 6

\* Log lines handled in one run
MaxLines == 3

MAPPING_TTL_FLOOR_SECS == 60
CLEANUP_TICK_SECS == 300
MAX_QUEUE_ID_LEN == 32

CleanupWord == <<"c", "l", "e", "a", "n", "u", "p">>

SmtpWord == <<"s", "m", "t", "p">>

Bounced == <<"b", "o", "u", "n", "c", "e", "d">>

Expired == <<"e", "x", "p", "i", "r", "e", "d">>

RELAY_HANDOFF_HOSTS == {<<"m", "x", "b", "g">>}

\* str::to_ascii_lowercase
str_to_ascii_lowercase(s) == [i \in DOMAIN s |-> to_ascii_lowercase(s[i])]

is_ascii_alphanumeric(ch) ==
    \/ \E i \in DOMAIN UpperCase : ch \in {UpperCase[i], LowerCase[i]}
    \/ ch \in {"Q", "b", "g", "o", "x", "0", "1", "2"}

is_queue_id(queue_id) ==
    /\ queue_id # <<>>
    /\ Len(queue_id) <= MAX_QUEUE_ID_LEN
    /\ \A i \in DOMAIN queue_id : is_ascii_alphanumeric(queue_id[i])

\* normalize_message_hash: the marks "1" and "2" stand for message ids whose
\* local part holds exactly 32 alphanumeric characters (hashes h1 and h2)
normalize_message_hash(value) ==
    IF value = <<"1">> THEN "h1"
    ELSE IF value = <<"2">> THEN "h2"
    ELSE "none"

RECURSIVE take_until(_, _)
take_until(s, stops) ==
    IF s = <<>> THEN <<>>
    ELSE IF Head(s) \in stops THEN <<>>
    ELSE <<Head(s)>> \o take_until(Tail(s), stops)

\* extract_relay_host: relay is what follows "relay=" in the detail, if
\* anything; the host ends at '[', ':', ',' or whitespace
extract_relay_host(relay) ==
    IF ~relay.some THEN None
    ELSE LET host == str_to_ascii_lowercase(
                         take_until(relay.val, {"[", ":", ",", " "}))
         IN  IF host = <<>> THEN None ELSE Some(host)

is_relay_handoff_host(host) ==
    \E relay \in RELAY_HANDOFF_HOSTS : eq_ignore_ascii_case(host, relay)

\* map_action that takes every "sent" for a delivery
map_action_ignoring_relay(smtp_status, relay_handoff) ==
    IF smtp_status = SentWord THEN Delivered
    ELSE IF smtp_status = Deferred THEN Delayed
    ELSE FailedWord

map_action(smtp_status, relay_handoff) ==
    IF smtp_status = SentWord /\ relay_handoff THEN Delayed
    ELSE IF smtp_status = SentWord THEN Delivered
    ELSE IF smtp_status = Deferred THEN Delayed
    ELSE FailedWord

default_status_code(smtp_status, relay_handoff) ==
    IF smtp_status = SentWord /\ relay_handoff THEN Code("4", "0", "0")
    ELSE IF smtp_status = SentWord THEN Code("2", "0", "0")
    ELSE IF smtp_status = Deferred THEN Code("4", "0", "0")
    ELSE Code("5", "0", "0")

\* A syslog line "<tag>[pid]: <queue_id>: <detail>": postfix says whether the
\* tag is "postfix/<service>", the other fields are the detail's tokens
LogLine(postfix, service, queue_id, message_id, to, status, dsn, relay) ==
    [postfix |-> postfix, service |-> service, queue_id |-> queue_id,
     message_id |-> message_id, to |-> to, status |-> status, dsn |-> dsn,
     relay |-> relay]

NotParsed == [kind |-> "None"]

parse_cleanup_message(line) ==
    IF ~is_queue_id(line.queue_id) THEN NotParsed
    ELSE IF ~line.message_id.some THEN NotParsed
    ELSE IF normalize_message_hash(line.message_id.val) = "none"
    THEN NotParsed
    ELSE [kind |-> "Cleanup", queue_id |-> line.queue_id,
          hash |-> normalize_message_hash(line.message_id.val)]

SmtpEvent(line, relay_handoff) ==
    [queue_id |-> line.queue_id,
     recipient |-> line.to.val,
     smtp_status |-> str_to_ascii_lowercase(line.status.val),
     status_code |->
        IF line.dsn.some THEN line.dsn.val
        ELSE default_status_code(str_to_ascii_lowercase(line.status.val),
                                 relay_handoff),
     action |-> map_action(str_to_ascii_lowercase(line.status.val),
                           relay_handoff),
     diagnostic |-> <<line.queue_id, line.to, line.status, line.dsn,
                      line.relay>>]

parse_smtp_message(line) ==
    IF ~is_queue_id(line.queue_id) THEN NotParsed
    ELSE IF ~line.to.some \/ ~line.status.some THEN NotParsed
    ELSE [kind |-> "Smtp",
          smtp |-> SmtpEvent(line,
                       /\ extract_relay_host(line.relay).some
                       /\ is_relay_handoff_host(
                              extract_relay_host(line.relay).val))]

parse_postfix_line(line) ==
    IF ~line.postfix THEN NotParsed
    ELSE IF eq_ignore_ascii_case(line.service, CleanupWord)
    THEN parse_cleanup_message(line)
    ELSE IF eq_ignore_ascii_case(line.service, SmtpWord)
    THEN parse_smtp_message(line)
    ELSE NotParsed

Q1 == <<"Q", "1">>

Q2 == <<"Q", "2">>

CleanupLine(service, queue_id, message_id) ==
    LogLine(TRUE, service, queue_id, message_id, None, None, None, None)

\* The log lines the listener is fed
LogLines ==
    {CleanupLine(CleanupWord, Q1, Some(<<"1">>)),
     CleanupLine(CleanupWord, Q1, Some(<<"2">>)),
     CleanupLine(<<"C", "l", "e", "a", "n", "u", "p">>, Q2, Some(<<"1">>)),
     CleanupLine(CleanupWord, Q2, Some(<<"s">>)),
     CleanupLine(CleanupWord, <<>>, Some(<<"1">>)),
     LogLine(TRUE, SmtpWord, Q1, None, Some(<<"r">>), Some(Bounced),
             Some(Code("5", "1", "1")), None),
     LogLine(TRUE, <<"S", "M", "T", "P">>, Q2, None, Some(<<"r">>),
             Some(<<"S", "e", "n", "t">>), None, Some(<<"M", "X", "b", "g">>)),
     LogLine(TRUE, SmtpWord, Q2, None, None, Some(Deferred), None, None),
     LogLine(TRUE, <<"l", "m", "t", "p">>, Q1, None, Some(<<"r">>),
             Some(SentWord), None, None),
     LogLine(FALSE, SmtpWord, Q1, None, Some(<<"r">>), Some(SentWord), None,
             None)}

QueueEntry(hash, updated_at) == [hash |-> hash, updated_at |-> updated_at]

DeliveryEvent(entry, smtp) ==
    [hash |-> entry.hash, queue_id |-> smtp.queue_id,
     recipient |-> smtp.recipient, status_code |-> smtp.status_code,
     action |-> smtp.action, diagnostic |-> smtp.diagnostic,
     smtp_status |-> smtp.smtp_status]

EmptyMap == [q \in {} |-> QueueEntry("h1", 0)]

\* HashMap::insert keeping the first binding of a key
queue_map_insert_first(queue_map, queue_id, entry) ==
    [q \in DOMAIN queue_map \cup {queue_id} |->
        IF q \in DOMAIN queue_map THEN queue_map[q] ELSE entry]

\* HashMap::insert
queue_map_insert(queue_map, queue_id, entry) ==
    [q \in DOMAIN queue_map \cup {queue_id} |->
        IF q = queue_id THEN entry ELSE queue_map[q]]

\* prune_queue_map: retain the entries refreshed at most ttl seconds ago
prune_queue_map(queue_map, ttl, now) ==
    [q \in {k \in DOMAIN queue_map : now - queue_map[k].updated_at <= ttl}
        |-> queue_map[q]]

\* mpsc::Sender::try_send that makes room by displacing the oldest event
try_send_displacing(chan, capacity, event) ==
    IF Len(chan) >= capacity
    THEN [chan |-> Append(Tail(chan), event), ok |-> TRUE]
    ELSE [chan |-> Append(chan, event), ok |-> TRUE]

\* mpsc::Sender::try_send on the bounded channel
try_send(chan, capacity, event) ==
    IF Len(chan) >= capacity
    THEN [chan |-> chan, ok |-> FALSE]
    ELSE [chan |-> Append(chan, event), ok |-> TRUE]

\* The listener after main built the channel and the listener bound its
\* socket: an empty map, the first prune tick due at once
ObsStart(queue_capacity, mapping_ttl_secs) ==
    [pc |-> "run",
     capacity |-> Max(queue_capacity, 1),
     ttl |-> Max(mapping_ttl_secs, MAPPING_TTL_FLOOR_SECS),
     queue_map |-> EmptyMap,
     now |-> 0,
     next_tick |-> 0,
     chan |-> <<>>,
     line |-> <<>>,
     built |-> <<>>,
     age |-> 0,
     dropped |-> 0,
     lines |-> 0]

ObsConfigs == {<<0, 0>>, <<2, 2 * MAPPING_TTL_FLOOR_SECS>>}

ObsInit ==
    /\ PipelineInit
    /\ RunningInit
    /\ wire = WireStart(ServerLimits)
    /\ reader = ReaderStart
    /\ probe = NoProbe
    /\ watcherUp
    /\ imap = ImapIdle
    /\ obs \in {ObsStart(c[1], c[2]) : c \in ObsConfigs}
    /\ pub = PubIdle
    /\ sd = SdIdle

ObsUnchanged ==
    UNCHANGED <<files, nextId, dropped, payloadOf, conn, hook, watcherUp,
                events, queue, scan, worker, procLog, dbOps, enqFailed, epoch,
                orphaned, srv, db, tx, wire, reader, probe, imap, pub, sd>>

\* The listener's clock moves on while no prune tick is due
ObsAdvance ==
    /\ obs.pc = "run"
    /\ obs.now < obs.next_tick
    /\ obs.now < MaxClock * MAPPING_TTL_FLOOR_SECS
    /\ obs' = [obs EXCEPT !.now = @ + MAPPING_TTL_FLOOR_SECS]
    /\ ObsUnchanged

\* cleanup_tick.tick(): prune the map, the next tick is 300 s later
ObsCleanupTick ==
    /\ obs.pc = "run"
    /\ obs.now >= obs.next_tick
    /\ obs' = [obs EXCEPT
                 !.queue_map = prune_queue_map(@, obs.ttl, obs.now),
                 !.next_tick = @ + CLEANUP_TICK_SECS]
    /\ ObsUnchanged

\* What one received log line does to the listener
HandleLine(o, line) ==
    LET parsed == parse_postfix_line(line)
        seen   == [o EXCEPT !.line = <<line>>, !.built = <<>>,
                            !.lines = @ + 1]
    IN  IF parsed.kind = "None" THEN seen
        ELSE IF parsed.kind = "Cleanup"
        THEN [seen EXCEPT !.queue_map =
                 queue_map_insert(@, parsed.queue_id,
                                  QueueEntry(parsed.hash, o.now))]
        ELSE IF parsed.smtp.queue_id \notin DOMAIN o.queue_map THEN seen
        ELSE LET entry == o.queue_map[parsed.smtp.queue_id]
                 event == DeliveryEvent(entry, parsed.smtp)
                 sent  == try_send(o.chan, o.capacity, event)
             IN  [seen EXCEPT
                    !.queue_map[parsed.smtp.queue_id].updated_at = o.now,
                    !.age = o.now - entry.updated_at,
                    !.built = <<event>>,
                    !.chan = sent.chan,
                    !.dropped = IF sent.ok THEN @ ELSE @ + 1]

\* socket.recv_from returned a datagram / lines_rx.recv returned a line
ObsRecv(line) ==
    /\ obs.pc = "run"
    /\ obs.lines < MaxLines
    /\ obs' = HandleLine(obs, line)
    /\ ObsUnchanged

\* socket.recv_from failed: the listener returns the error
ObsRecvFailed ==
    /\ obs.pc = "run"
    /\ obs' = [obs EXCEPT !.pc = "failed"]
    /\ ObsUnchanged

\* The publisher takes the oldest event off the channel
ObsPublisherRecv ==
    /\ obs.pc \in {"run", "failed"}
    /\ obs.chan # <<>>
    /\ obs' = [obs EXCEPT !.chan = Tail(@)]
    /\ ObsUnchanged

NextObs ==
    \/ ObsAdvance
    \/ ObsCleanupTick
    \/ \E line \in LogLines : ObsRecv(line)
    \/ ObsRecvFailed
    \/ ObsPublisherRecv

ObsSpec == ObsInit /\ [][NextObs]_vars

----------------------------------------------------------------------------
\* Log observers.

\* The queue id of the smtp line the listener has just handled, if that line
\* parses as one
SmtpHandled(queue_id) ==
    /\ obs'.lines = obs.lines + 1
    /\ parse_postfix_line(obs'.line[1]).kind = "Smtp"
    /\ obs'.line[1].queue_id = queue_id

\* C23: observer correlation.  An smtp line whose queue_id is not in the map
\* builds no delivery event and leaves map and channel as they were; an smtp
\* line whose queue_id is in the map builds exactly one event, with the hash
\* of the map's entry and every other field from the smtp line; and a
\* cleanup line binds its queue_id to its own hash.
C23_ObserverCorrelation ==
    [][/\ \A q \in {Q1, Q2} :
            SmtpHandled(q) =>
                IF q \notin DOMAIN obs.queue_map
                THEN /\ obs'.built = <<>>
                     /\ obs'.queue_map = obs.queue_map
                     /\ obs'.chan = obs.chan
                ELSE /\ Len(obs'.built) = 1
                     /\ obs'.built[1].hash = obs.queue_map[q].hash
                     /\ obs'.built[1].queue_id = q
                     /\ obs'.built[1].recipient = obs'.line[1].to.val
                     /\ obs'.built[1].smtp_status =
                            str_to_ascii_lowercase(obs'.line[1].status.val)
                     /\ obs'.line[1].dsn.some =>
                            obs'.built[1].status_code = obs'.line[1].dsn.val
       /\ (/\ obs'.lines = obs.lines + 1
           /\ parse_postfix_line(obs'.line[1]).kind = "Cleanup")
          => /\ obs'.line[1].queue_id \in DOMAIN obs'.queue_map
             /\ obs'.queue_map[obs'.line[1].queue_id].hash =
                    normalize_message_hash(obs'.line[1].message_id.val)
             /\ obs'.built = <<>>]_vars

\* Queue id Q1 was bound to h1, bound again to h2, and the smtp line for Q1
\* then built one event carrying h2
C23_Witness ==
    /\ obs.pc = "run"
    /\ obs.lines = 3
    /\ Len(obs.built) = 1
    /\ obs.built[1].queue_id = Q1
    /\ obs.built[1].hash = "h2"
    /\ obs.built[1].action = FailedWord
    /\ obs.chan = obs.built

\* C24: mapping freshness.  Every entry in the queue-id map, and the entry
\* the last correlation used, was inserted or refreshed at most
\* max(mapping_ttl, 60) seconds earlier.
C24_MappingFreshness ==
    obs.pc = "run" =>
        /\ \A q \in DOMAIN obs.queue_map :
              obs.now - obs.queue_map[q].updated_at <= obs.ttl
        /\ obs.age <= obs.ttl

----------------------------------------------------------------------------
\* Publishers (bouncer-observer and bouncer-journal share send_with_retry,
\* connect_and_register and send_frame) and bouncer-client.

\* send_with_retry calls in one run
MaxSends == 2

RETRY_ATTEMPTS == 3
BACKOFF_MS == 250
EX_TEMPFAIL == 75
EX_USAGE == 64
ACK_LEN == 3

AckBytes == <<"O", "K", "\n">>

\* What the peer does once a frame was written: the bytes it sends and
\* whether it then closes the connection (otherwise it stays silent)
Reply(bytes, closed) == [bytes |-> bytes, closed |-> closed]

Replies ==
    {Reply(AckBytes, FALSE),
     Reply(<<"O", "K", "\n", "O">>, FALSE),
     Reply(<<"E", "R", "R">>, FALSE),
     Reply(<<"O", "K">>, TRUE),
     Reply(<<>>, FALSE)}

\* read_ack that takes any three bytes for an ACK
read_ack_any(buf, closed) ==
    IF Len(buf) < ACK_LEN
    THEN [result |-> IF closed THEN "UnexpectedEof" ELSE "Timeout",
          read |-> buf, rest |-> <<>>]
    ELSE [result |-> "Ok",
          read |-> SubSeq(buf, 1, ACK_LEN),
          rest |-> SubSeq(buf, ACK_LEN + 1, Len(buf))]

\* read_ack_sync / read_ack_async under the caller's timeout: read_exact of
\* three bytes from what the stream holds, then the comparison with ACK
read_ack(buf, closed) ==
    IF Len(buf) < ACK_LEN
    THEN [result |-> IF closed THEN "UnexpectedEof" ELSE "Timeout",
          read |-> buf, rest |-> <<>>]
    ELSE [result |-> IF SubSeq(buf, 1, ACK_LEN) = AckBytes
                     THEN "Ok" ELSE "InvalidMagic",
          read |-> SubSeq(buf, 1, ACK_LEN),
          rest |-> SubSeq(buf, ACK_LEN + 1, Len(buf))]

\* A TCP stream: the frames written on it with the outcome of each, and the
\* received bytes not read yet
NewStream == [frames |-> <<>>, rbuf |-> <<>>]

\* send_frame: write the frame, then wait for the ACK
send_frame(stream, kind, write_ok, reply) ==
    IF ~write_ok
    THEN [ok |-> FALSE, read |-> <<>>,
          stream |-> [stream EXCEPT !.frames =
                          Append(@, [kind |-> kind, ack |-> "WriteFailed"])]]
    ELSE LET ack == read_ack(stream.rbuf \o reply.bytes, reply.closed)
         IN  [ok |-> ack.result = "Ok", read |-> ack.read,
              stream |-> [frames |-> Append(stream.frames,
                                      [kind |-> kind, ack |-> ack.result]),
                          rbuf |-> ack.rest]]

\* run_publisher about to enter its loop: no connection
PubStart(rx) ==
    [pc |-> "select",
     rx |-> rx,
     connection |-> <<>>,
     stream |-> <<>>,
     kind |-> "none",
     event |-> <<>>,
     attempt |-> 0,
     slept |-> <<>>,
     ret |-> "none",
     read |-> <<>>,
     dropped |-> <<>>,
     sends |-> 0,
     published |-> <<>>,
     client |-> [pc |-> "start", exit |-> 0, read |-> <<>>, ack |-> "none"]]

PubInit ==
    /\ PipelineInit
    /\ RunningInit
    /\ wire = WireStart(ServerLimits)
    /\ reader = ReaderStart
    /\ probe = NoProbe
    /\ watcherUp
    /\ imap = ImapIdle
    /\ obs = ObsIdle
    /\ pub \in {PubStart(<<"e1">>), PubStart(<<"e1", "e2">>)}
    /\ sd = SdIdle

PubUnchanged ==
    UNCHANGED <<files, nextId, dropped, payloadOf, conn, hook, watcherUp,
                events, queue, scan, worker, procLog, dbOps, enqFailed, epoch,
                orphaned, srv, db, tx, wire, reader, probe, imap, obs, sd>>

\* The start of send_with_retry
Retrying(p, kind, event) ==
    [p EXCEPT !.pc = "attempt", !.kind = kind, !.event = event,
              !.attempt = 1, !.slept = <<>>, !.ret = "none",
              !.sends = @ + 1]

\* events_rx.recv() returned an event
PubRecvEvent ==
    /\ pub.pc = "select"
    /\ pub.sends < MaxSends
    /\ pub.rx # <<>>
    /\ pub' = Retrying([pub EXCEPT !.rx = Tail(@)], "observer_event",
                       <<Head(pub.rx)>>)
    /\ PubUnchanged

\* heartbeat_tick.tick()
PubHeartbeat ==
    /\ pub.pc = "select"
    /\ pub.sends < MaxSends
    /\ pub' = Retrying(pub, "heartbeat", <<>>)
    /\ PubUnchanged

\* A failed attempt that carries on with the next one although attempts
\* are exhausted
FailedAttemptUnbounded(p) ==
    [p EXCEPT !.slept = Append(@, p.attempt * BACKOFF_MS),
              !.attempt = IF p.attempt = RETRY_ATTEMPTS THEN 1 ELSE @ + 1]

\* A failed attempt: sleep attempt*250 ms, then the next attempt, or Err
\* out of send_with_retry and back to the select loop, the event gone
FailedAttempt(p) ==
    IF p.attempt = RETRY_ATTEMPTS
    THEN [p EXCEPT !.slept = Append(@, p.attempt * BACKOFF_MS),
                   !.pc = "select", !.ret = "err"]
    ELSE [p EXCEPT !.slept = Append(@, p.attempt * BACKOFF_MS),
                   !.attempt = @ + 1]

\* connect_and_register, TcpStream::connect under its timeout
PubConnect(connect_ok) ==
    /\ pub.pc = "attempt"
    /\ pub.connection = <<>>
    /\ pub' = IF connect_ok
              THEN [pub EXCEPT !.pc = "register", !.stream = <<NewStream>>,
                               !.dropped = <<>>]
              ELSE FailedAttempt([pub EXCEPT !.dropped = <<>>])
    /\ PubUnchanged

\* connect_and_register that hands the stream back whatever the register
\* frame's outcome
connect_and_register_keep(p, write_ok, reply) ==
    LET sent == send_frame(p.stream[1], "register", write_ok, reply)
    IN  [p EXCEPT !.pc = "attempt", !.stream = <<>>,
                  !.connection = <<sent.stream>>, !.read = sent.read]

\* connect_and_register, the register frame: the stream is handed back only
\* when the frame was written and ACKed, and dropped otherwise
connect_and_register(p, write_ok, reply) ==
    LET sent == send_frame(p.stream[1], "register", write_ok, reply)
    IN  IF sent.ok
        THEN [p EXCEPT !.pc = "attempt", !.stream = <<>>,
                       !.connection = <<sent.stream>>, !.read = sent.read]
        ELSE FailedAttempt([p EXCEPT !.pc = "attempt", !.stream = <<>>,
                                     !.dropped = <<sent.stream>>,
                                     !.read = sent.read])

PubRegister(write_ok, reply) ==
    /\ pub.pc = "register"
    /\ pub' = connect_and_register(pub, write_ok, reply)
    /\ PubUnchanged

\* send_with_retry, send_frame on the held connection
PubSendFrame(write_ok, reply) ==
    /\ pub.pc = "attempt"
    /\ pub.connection # <<>>
    /\ LET sent == send_frame(pub.connection[1], pub.kind, write_ok, reply)
       IN  pub' = IF sent.ok
                  THEN [pub EXCEPT !.pc = "select", !.ret = "ok",
                                   !.connection = <<sent.stream>>,
                                   !.read = sent.read, !.dropped = <<>>,
                                   !.published = @ \o pub.event]
                  ELSE FailedAttempt([pub EXCEPT !.connection = <<>>,
                                                 !.dropped = <<sent.stream>>,
                                                 !.read = sent.read])
    /\ PubUnchanged

\* shutdown.cancelled(): break out of the select loop
PubStop ==
    /\ pub.pc = "select"
    /\ pub' = [pub EXCEPT !.pc = "stopped", !.connection = <<>>]
    /\ PubUnchanged

\* bouncer-client: run_with_cli and main's exit code
ClientRun(usage_ok, body_ok, connect_ok, write_ok, reply) ==
    /\ pub.pc # "idle"
    /\ pub.client.pc = "start"
    /\ LET sent == send_frame(NewStream, "mail", write_ok, reply)
           sending == usage_ok /\ body_ok /\ connect_ok
       IN  pub' = [pub EXCEPT !.client =
                      [pc |-> "exited",
                       exit |-> IF ~usage_ok THEN EX_USAGE
                                ELSE IF sending /\ sent.ok THEN 0
                                ELSE EX_TEMPFAIL,
                       read |-> IF sending THEN sent.read ELSE <<>>,
                       ack |-> IF sending
                               THEN sent.stream.frames[1].ack
                               ELSE "none"]]
    /\ PubUnchanged

NextPub ==
    \/ PubRecvEvent
    \/ PubHeartbeat
    \/ \E connect_ok \in BOOLEAN : PubConnect(connect_ok)
    \/ \E write_ok \in BOOLEAN, reply \in Replies :
          PubRegister(write_ok, reply)
    \/ \E write_ok \in BOOLEAN, reply \in Replies :
          PubSendFrame(write_ok, reply)
    \/ PubStop
    \/ \E usage_ok, body_ok, connect_ok, write_ok \in BOOLEAN,
          reply \in Replies :
          ClientRun(usage_ok, body_ok, connect_ok, write_ok, reply)

PubSpec == PubInit /\ [][NextPub]_vars

\* The publisher task and the network's timeouts are scheduled: an attempt
\* under way takes its next step
PubFairSpec ==
    /\ PubSpec
    /\ WF_vars(\E connect_ok \in BOOLEAN : PubConnect(connect_ok))
    /\ WF_vars(\E write_ok \in BOOLEAN, reply \in Replies :
                  PubRegister(write_ok, reply))
    /\ WF_vars(\E write_ok \in BOOLEAN, reply \in Replies :
                  PubSendFrame(write_ok, reply))

----------------------------------------------------------------------------
\* Publishers and bouncer-client.

\* The backoffs slept after failed attempts 1..n
Backoffs(n) == [k \in 1..n |-> k * 250]

\* The streams the publisher holds, is registering, or has just dropped
PubStreams ==
    {pub.connection[i] : i \in DOMAIN pub.connection}
        \cup {pub.stream[i] : i \in DOMAIN pub.stream}
        \cup {pub.dropped[i] : i \in DOMAIN pub.dropped}

\* C26: bounded publisher retry.  Inside send_with_retry the attempt number
\* is 1..3 and every failed attempt before it was followed by a sleep of
\* attempt*250 ms; a failed attempt leaves no connection; Ok is returned by
\* the first attempt whose frame was written and ACKed, Err after the third
\* failed attempt; after Err the event is neither published nor back in the
\* channel and the publisher is at its select loop; and every call returns.
C26_BoundedRetry ==
    /\ [](pub.pc \in {"attempt", "register"}
            => /\ pub.attempt \in 1..3
               /\ pub.slept = Backoffs(pub.attempt - 1)
               /\ pub.ret = "none")
    /\ [](pub.pc = "select" /\ pub.ret = "ok"
            => /\ pub.slept = Backoffs(pub.attempt - 1)
               /\ pub.read = AckBytes
               /\ pub.connection # <<>>)
    /\ [](pub.pc = "select" /\ pub.ret = "err"
            => /\ pub.attempt = 3
               /\ pub.slept = Backoffs(3)
               /\ pub.connection = <<>>)
    /\ [][/\ Len(pub'.slept) = Len(pub.slept) + 1
             => pub'.connection = <<>> /\ pub'.stream = <<>>
          /\ (pub.ret = "none" /\ pub'.ret = "err")
             => /\ pub'.rx = pub.rx
                /\ pub'.published = pub.published
                /\ pub'.pc = "select"]_vars
    /\ (pub.pc \in {"attempt", "register"}) ~> (pub.pc = "select")

\* The first event was published; the second failed three times, with the
\* three backoffs, and is gone
C26_Witness ==
    /\ pub.pc = "select"
    /\ pub.ret = "err"
    /\ pub.slept = <<250, 500, 750>>
    /\ pub.published = <<"e1">>
    /\ pub.rx = <<>>
    /\ pub.sends = 2

\* C27: register precedes traffic.  The publisher has at most one stream,
\* held or being registered; the first frame on every stream is register,
\* and a later frame was written only after the register frame's ACK; the
\* held connection is one whose register frame was ACKed.
C27_RegisterPrecedesTraffic ==
    pub.pc # "idle" =>
        /\ Len(pub.connection) + Len(pub.stream) <= 1
        /\ \A s \in PubStreams :
              \A i \in DOMAIN s.frames :
                  IF i = 1 THEN s.frames[i].kind = "register"
                  ELSE /\ s.frames[i].kind \in {"observer_event", "heartbeat"}
                       /\ s.frames[1].ack = "Ok"
        /\ \A i \in DOMAIN pub.connection :
              /\ pub.connection[i].frames # <<>>
              /\ pub.connection[i].frames[1].ack = "Ok"

\* An event was published on a first connection; the heartbeat's write on
\* it failed, the connection was dropped, and on the connection opened for
\* the second attempt register was ACKed before the heartbeat was written
C27_Witness ==
    /\ pub.pc = "select"
    /\ pub.ret = "ok"
    /\ pub.attempt = 2
    /\ pub.published = <<"e1">>
    /\ Len(pub.connection) = 1
    /\ Len(pub.connection[1].frames) = 2
    /\ pub.connection[1].frames[1] = [kind |-> "register", ack |-> "Ok"]
    /\ pub.connection[1].frames[2] = [kind |-> "heartbeat", ack |-> "Ok"]

\* C28: client ACK check.  A client reads at most three bytes for an ACK
\* and takes the frame for delivered only when it read OK\n: bouncer-client
\* exits 0 only then and 75 on any other reply, and a publisher returns Ok
\* only then and otherwise has dropped the connection and retries or has
\* used up its attempts.
C28_ClientAckCheck ==
    pub.pc # "idle" =>
        /\ Len(pub.client.read) <= 3 /\ Len(pub.read) <= 3
        /\ pub.client.pc = "exited" =>
              /\ pub.client.exit = 0 <=> pub.client.read = AckBytes
              /\ pub.client.ack \notin {"Ok", "none"}
                 => pub.client.exit = 75
        /\ \A s \in PubStreams :
              \A i \in DOMAIN s.frames :
                  (s.frames[i].ack # "Ok") =>
                      /\ i = Len(s.frames)
                      /\ pub.dropped = <<s>>
        /\ pub.ret = "ok" => pub.read = AckBytes
        /\ (pub.dropped # <<>> /\ pub.pc # "stopped")
           => /\ pub.connection = <<>>
              /\ pub.pc = "attempt" \/ pub.ret = "err"

\* bouncer-client got ERR for an ACK and exited 75; the publisher's
\* connection got OK\n followed by a stray byte and its frame counts as
\* delivered
C28_Witness ==
    /\ pub.client.pc = "exited"
    /\ pub.client.read = <<"E", "R", "R">>
    /\ pub.client.exit = 75
    /\ pub.ret = "ok"
    /\ Len(pub.connection) = 1
    /\ pub.connection[1].rbuf # <<>>

----------------------------------------------------------------------------
\* Shutdown of the three daemons: the shared cancellation token, the tasks
\* each main spawns, and what main waits for before it returns.

Daemons == {"server", "observer", "journal"}

ServerTasks ==
    {"watcher", "scan", "dispatcher", "worker1", "worker2", "imap", "conn"}

SpoolWorkers == {"worker1", "worker2"}

ObserverTasks == {"listener", "publisher", "reader"}

Ended == {"returned", "aborted"}

\* What main has spawned when it reaches its own loop.  The server's
\* connection task is spawned by the accept loop; only bouncer-journal's
\* listener has a reader thread.
SdStart(daemon) ==
    [daemon |-> daemon,
     cancelled |-> FALSE,
     main |-> IF daemon = "server" THEN "accept" ELSE "wait",
     ret |-> "none",
     task |-> IF daemon = "server"
              THEN [t \in ServerTasks |->
                       IF t = "conn" THEN "none"
                       ELSE IF t = "dispatcher" THEN "join"
                       ELSE IF t \in SpoolWorkers THEN "lock"
                       ELSE "select"]
              ELSE [t \in ObserverTasks |->
                       IF t = "reader"
                       THEN IF daemon = "journal" THEN "poll" ELSE "none"
                       ELSE "select"],
     lock |-> "none",
     stop |-> FALSE,
     queue |-> 0,
     cut |-> {}]

SdInit ==
    /\ PipelineInit
    /\ RunningInit
    /\ wire = WireStart(ServerLimits)
    /\ reader = ReaderStart
    /\ probe = NoProbe
    /\ watcherUp
    /\ imap = ImapIdle
    /\ obs = ObsIdle
    /\ pub = PubIdle
    /\ sd \in {SdStart(d) : d \in Daemons}

SdUnchanged ==
    UNCHANGED <<files, nextId, dropped, payloadOf, conn, hook, watcherUp,
                events, queue, scan, worker, procLog, dbOps, enqFailed, epoch,
                orphaned, srv, db, tx, wire, reader, probe, imap, obs, pub>>

SdRunning == sd.main # "idle" /\ sd.main # "returned"

\* process_rx lives in shared_rx, which the dispatcher and every worker
\* hold: the channel is closed once all of them are gone
RxOpen(s) ==
    \E t \in SpoolWorkers \cup {"dispatcher"} : s.task[t] \notin Ended

\* listen_shutdown: a signal arrived, token.cancel()
SdSignal ==
    /\ SdRunning
    /\ ~sd.cancelled
    /\ sd' = [sd EXCEPT !.cancelled = TRUE]
    /\ SdUnchanged

\* A task at its select! takes the shutdown.cancelled() branch and returns.
\* A worker waits for the receiver lock or for recv inside that select!;
\* bouncer-journal's listener first sets the stop flag and joins the
\* reader thread.
SdCancelled(t) ==
    /\ SdRunning
    /\ sd.cancelled
    /\ t \in DOMAIN sd.task
    /\ t \notin {"conn", "dispatcher", "reader"}
    /\ sd.task[t] \in {"select", "lock", "recv"}
    /\ sd' = [sd EXCEPT
                !.task[t] = IF t = "listener" /\ sd.daemon = "journal"
                            THEN "join_reader" ELSE "returned",
                !.stop = IF t = "listener" THEN TRUE ELSE @,
                !.lock = IF sd.lock = t THEN "none" ELSE @]
    /\ SdUnchanged

\* The notify watcher got an event, or the scan's ticker fired and
\* read_dir found a file: process_tx.send(path).await begins
SdProduce(t) ==
    /\ SdRunning
    /\ sd.daemon = "server"
    /\ t \in {"watcher", "scan"}
    /\ sd.task[t] = "select"
    /\ sd' = [sd EXCEPT !.task[t] = "send"]
    /\ SdUnchanged

\* process_tx.send(path).await completes: with room, the path is queued;
\* with the receiver gone, the scan returns and the watcher goes back to
\* its select!; on a full channel the send stays pending
SdSend(t) ==
    /\ SdRunning
    /\ sd.daemon = "server"
    /\ t \in {"watcher", "scan"}
    /\ sd.task[t] = "send"
    /\ IF ~RxOpen(sd)
       THEN sd' = [sd EXCEPT !.task[t] = IF t = "scan" THEN "returned"
                                         ELSE "select"]
       ELSE /\ sd.queue < process_queue_capacity
            /\ sd' = [sd EXCEPT !.task[t] = "select", !.queue = @ + 1]
    /\ SdUnchanged

\* shared_rx.lock().await
SdWorkerLock(w) ==
    /\ SdRunning
    /\ sd.daemon = "server"
    /\ w \in SpoolWorkers
    /\ sd.task[w] = "lock"
    /\ sd.lock = "none"
    /\ sd' = [sd EXCEPT !.task[w] = "recv", !.lock = w]
    /\ SdUnchanged

\* rx.recv().await returned a path: process_spooled_message begins
SdWorkerRecv(w) ==
    /\ SdRunning
    /\ sd.daemon = "server"
    /\ w \in SpoolWorkers
    /\ sd.task[w] = "recv"
    /\ sd.queue > 0
    /\ sd' = [sd EXCEPT !.task[w] = "item", !.lock = "none",
                        !.queue = @ - 1]
    /\ SdUnchanged

\* process_spooled_message returned
SdWorkerDone(w) ==
    /\ SdRunning
    /\ sd.daemon = "server"
    /\ w \in SpoolWorkers
    /\ sd.task[w] = "item"
    /\ sd' = [sd EXCEPT !.task[w] = "lock"]
    /\ SdUnchanged

\* spawn_worker_dispatcher: every handle.await has returned
SdDispatcherJoined ==
    /\ SdRunning
    /\ sd.daemon = "server"
    /\ sd.task["dispatcher"] = "join"
    /\ \A w \in SpoolWorkers : sd.task[w] = "returned"
    /\ sd' = [sd EXCEPT !.task["dispatcher"] = "returned"]
    /\ SdUnchanged

\* The IMAP ticker fired (run_imap_poll_once begins), the publisher took
\* an event or a heartbeat tick (send_with_retry begins)
SdWork(t) ==
    /\ SdRunning
    /\ t \in DOMAIN sd.task
    /\ t \in {"imap", "publisher"}
    /\ sd.task[t] = "select"
    /\ sd' = [sd EXCEPT !.task[t] = "work"]
    /\ SdUnchanged

\* run_imap_poll_once / send_with_retry returned
SdWorkDone(t) ==
    /\ SdRunning
    /\ t \in DOMAIN sd.task
    /\ sd.task[t] = "work"
    /\ sd' = [sd EXCEPT !.task[t] = "select"]
    /\ SdUnchanged

\* Dropping the runtime when main returns: a task that has not returned is
\* dropped where it stands
RuntimeDropped(s) ==
    [s EXCEPT !.task = [t \in DOMAIN s.task |->
                           IF s.task[t] \in {"none", "returned"}
                           THEN s.task[t] ELSE "aborted"],
              !.cut = {t \in DOMAIN s.task : s.task[t] \in {"item", "work",
                                                             "frame"}},
              !.lock = "none"]

\* run_tcp_server: listener.accept() returned a connection, its task is
\* spawned and waits for a frame
SdAccept ==
    /\ sd.main = "accept"
    /\ sd.task["conn"] = "none"
    /\ sd' = [sd EXCEPT !.task["conn"] = "read"]
    /\ SdUnchanged

\* run_tcp_server: the shutdown.cancelled() branch breaks the accept loop,
\* run_tcp_server returns Ok and main returns it
SdAcceptCancelled ==
    /\ sd.main = "accept"
    /\ sd.cancelled
    /\ sd' = RuntimeDropped([sd EXCEPT !.main = "returned", !.ret = "ok"])
    /\ SdUnchanged

\* run_tcp_server: accept failed, the error is main's result
SdAcceptFailed ==
    /\ sd.main = "accept"
    /\ sd' = RuntimeDropped([sd EXCEPT !.main = "returned", !.ret = "err"])
    /\ SdUnchanged

\* handle_client: read_frame_async returned a frame, the frame's handling
\* and ACK, the next read
SdConnFrame ==
    /\ SdRunning
    /\ sd.daemon = "server"
    /\ sd.task["conn"] \in {"read", "frame"}
    /\ sd' = [sd EXCEPT !.task["conn"] = IF @ = "read" THEN "frame"
                                         ELSE "read"]
    /\ SdUnchanged

\* handle_client: the client closed the connection or sent a bad frame
SdConnClosed ==
    /\ SdRunning
    /\ sd.daemon = "server"
    /\ sd.task["conn"] = "read"
    /\ sd' = [sd EXCEPT !.task["conn"] = "returned"]
    /\ SdUnchanged

\* run_udp_listener: socket.recv_from failed, the listener returns Err
SdListenerFailed ==
    /\ SdRunning
    /\ sd.daemon = "observer"
    /\ sd.task["listener"] = "select"
    /\ sd' = [sd EXCEPT !.task["listener"] = "returned"]
    /\ SdUnchanged

\* run_reader_thread: the stop flag is seen at the top of a loop
SdReaderStopped ==
    /\ SdRunning
    /\ sd.daemon = "journal"
    /\ sd.task["reader"] = "poll"
    /\ sd.stop
    /\ sd' = [sd EXCEPT !.task["reader"] = "returned"]
    /\ SdUnchanged

\* run_journal_watcher: reader_thread.join() returned
SdReaderJoined ==
    /\ SdRunning
    /\ sd.daemon = "journal"
    /\ sd.task["listener"] = "join_reader"
    /\ sd.task["reader"] = "returned"
    /\ sd' = [sd EXCEPT !.task["listener"] = "returned"]
    /\ SdUnchanged

\* Observer and journal main: shutdown.cancelled().await, then
\* listener_task.await, then publisher_task.await, then Ok
SdMainJoin ==
    /\ sd.main \in {"wait", "join_listener", "join_publisher"}
    /\ \/ /\ sd.main = "wait" /\ sd.cancelled
          /\ sd' = [sd EXCEPT !.main = "join_listener"]
       \/ /\ sd.main = "join_listener"
          /\ sd.task["listener"] = "returned"
          /\ sd' = [sd EXCEPT !.main = "join_publisher"]
       \/ /\ sd.main = "join_publisher"
          /\ sd.task["publisher"] = "returned"
          /\ sd' = RuntimeDropped([sd EXCEPT !.main = "returned",
                                             !.ret = "ok"])
    /\ SdUnchanged

SdTaskStep ==
    \/ \E t \in ServerTasks \cup ObserverTasks : SdCancelled(t)
    \/ \E t \in {"watcher", "scan"} : SdSend(t)
    \/ \E w \in SpoolWorkers : SdWorkerLock(w)
    \/ \E w \in SpoolWorkers : SdWorkerRecv(w)
    \/ \E w \in SpoolWorkers : SdWorkerDone(w)
    \/ SdDispatcherJoined
    \/ \E t \in {"imap", "publisher"} : SdWorkDone(t)
    \/ SdReaderStopped
    \/ SdReaderJoined

NextShutdown ==
    \/ SdSignal
    \/ SdTaskStep
    \/ \E t \in {"watcher", "scan"} : SdProduce(t)
    \/ \E t \in {"imap", "publisher"} : SdWork(t)
    \/ SdAccept
    \/ SdAcceptCancelled
    \/ SdAcceptFailed
    \/ SdConnFrame
    \/ SdConnClosed
    \/ SdListenerFailed
    \/ SdMainJoin

ShutdownSpec == SdInit /\ [][NextShutdown]_vars

\* The runtime schedules every task that can take a step, and main; a
\* select! with the token cancelled picks among its ready branches at
\* random, so a task that comes back to its select! again and again takes
\* the cancelled branch at last
ShutdownFairSpec ==
    /\ ShutdownSpec
    /\ \A t \in ServerTasks \cup ObserverTasks : SF_vars(SdCancelled(t))
    /\ \A t \in {"watcher", "scan"} : WF_vars(SdSend(t))
    /\ \A w \in SpoolWorkers :
          WF_vars(SdWorkerLock(w) \/ SdWorkerRecv(w) \/ SdWorkerDone(w))
    /\ WF_vars(SdDispatcherJoined)
    /\ \A t \in {"imap", "publisher"} : WF_vars(SdWorkDone(t))
    /\ WF_vars(SdReaderStopped \/ SdReaderJoined)
    /\ WF_vars(SdAcceptCancelled)
    /\ WF_vars(SdMainJoin)

\* The tasks main or the accept loop has spawned
SpawnedTasks == {t \in DOMAIN sd.task : sd.task[t] # "none"}

\* C29: shutdown joins all tasks.  When a daemon's main has returned,
\* every task it spawned has returned, and none was dropped in the middle
\* of its work.
C29_ShutdownJoinsAllTasks ==
    (sd.main = "returned")
    => /\ \A t \in SpawnedTasks : sd.task[t] = "returned"
       /\ sd.cut = {}

\* C30: cooperative cancellation terminates every task.  Once the token is
\* cancelled, every spawned task eventually returns.
C30_CancellationTerminatesEveryTask ==
    (sd.main # "idle" /\ sd.cancelled)
    ~> (\A t \in SpawnedTasks : sd.task[t] = "returned")

----------------------------------------------------------------------------
\* Hash extraction from Message-ID-like header values (server parser and
\* observer/journal parser), on strings as sequences of characters.

\* Longest local part enumerated in full
MaxLocalLen == 2

OBSERVER_HASH_LEN == 32

is_whitespace(ch) == ch \in {" ", "\t"}

AngleBrackets == {"<", ">"}

RECURSIVE trim_start_matches(_, _)
\* str::trim_start_matches with a set of characters
trim_start_matches(s, chars) ==
    IF s # <<>> /\ Head(s) \in chars THEN trim_start_matches(Tail(s), chars)
    ELSE s

RECURSIVE trim_end_matches(_, _)
trim_end_matches(s, chars) ==
    IF s # <<>> /\ s[Len(s)] \in chars
    THEN trim_end_matches(SubSeq(s, 1, Len(s) - 1), chars)
    ELSE s

\* str::trim_matches
trim_matches(s, chars) == trim_end_matches(trim_start_matches(s, chars), chars)

\* str::trim
trim(s) == trim_matches(s, {" ", "\t"})

\* str::find of one character at or after position from: its index, or 0
find_char(s, ch, from) ==
    IF \E i \in from..Len(s) : s[i] = ch
    THEN CHOOSE i \in from..Len(s) :
            s[i] = ch /\ \A j \in from..(i - 1) : s[j] # ch
    ELSE 0

\* value.split('@').next()
before_at(s) ==
    IF find_char(s, "@", 1) = 0 THEN s
    ELSE SubSeq(s, 1, find_char(s, "@", 1) - 1)

\* chars().filter(is_ascii_alphanumeric).collect()
alphanumeric_only(s) == SelectSeq(s, is_ascii_alphanumeric)

\* The filtered local part both parsers compute
normalized_local(value) ==
    alphanumeric_only(trim(before_at(trim_matches(trim(value),
                                                  AngleBrackets))))

\* Server parser, normalize_message_hash: any non-empty result
server_normalize_message_hash(value) ==
    IF normalized_local(value) = <<>> THEN None
    ELSE Some(normalized_local(value))

\* Observer and journal parser, normalize_message_hash: exactly 32 characters
observer_normalize_message_hash(value) ==
    IF Len(normalized_local(value)) = OBSERVER_HASH_LEN
    THEN Some(normalized_local(value))
    ELSE None

RECURSIVE split_whitespace(_)
\* str::split_whitespace
split_whitespace(s) ==
    LET t == trim_start_matches(s, {" ", "\t"})
        stop == IF \E i \in DOMAIN t : is_whitespace(t[i])
                THEN CHOOSE i \in DOMAIN t :
                        /\ is_whitespace(t[i])
                        /\ \A j \in 1..(i - 1) : ~is_whitespace(t[j])
                ELSE Len(t) + 1
    IN  IF t = <<>> THEN <<>>
        ELSE <<SubSeq(t, 1, stop - 1)>>
                 \o split_whitespace(SubSeq(t, stop, Len(t)))

RECURSIVE first_bracketed_hash(_, _)
\* The while loop over "<...>" tokens, from position start
first_bracketed_hash(value, start) ==
    LET open == find_char(value, "<", start)
        close == IF open = 0 THEN 0 ELSE find_char(value, ">", open + 1)
    IN  IF open = 0 \/ close = 0 THEN None
        ELSE IF server_normalize_message_hash(SubSeq(value, open, close)).some
        THEN server_normalize_message_hash(SubSeq(value, open, close))
        ELSE first_bracketed_hash(value, close + 1)

RECURSIVE first_token_hash(_)
first_token_hash(tokens) ==
    IF tokens = <<>> THEN None
    ELSE IF server_normalize_message_hash(Head(tokens)).some
    THEN server_normalize_message_hash(Head(tokens))
    ELSE first_token_hash(Tail(tokens))

\* extract_hash_from_message_id_like_header without the fallback over
\* whitespace-separated tokens
extract_hash_brackets_only(value) == first_bracketed_hash(value, 1)

\* extract_hash_from_message_id_like_header
extract_hash_from_message_id_like_header(value) ==
    IF first_bracketed_hash(value, 1).some
    THEN first_bracketed_hash(value, 1)
    ELSE IF first_token_hash(split_whitespace(value)).some
    THEN first_token_hash(split_whitespace(value))
    ELSE server_normalize_message_hash(value)

\* parse_cleanup_message: the text between "message-id=<" and the next ">"
cleanup_message_hash(value) ==
    LET open == find_char(value, "<", 1)
        close == IF open = 0 THEN 0 ELSE find_char(value, ">", open + 1)
    IN  IF open = 0 \/ close = 0 THEN None
        ELSE observer_normalize_message_hash(
                 SubSeq(value, open + 1, close - 1))

HashAlphabet == {"a", "1", "-", " "}

RECURSIVE SeqsUpTo(_, _)
SeqsUpTo(S, n) ==
    IF n = 0 THEN {<<>>}
    ELSE SeqsUpTo(S, n - 1)
             \cup {Append(s, x) : s \in SeqsUpTo(S, n - 1), x \in S}

Repeat(s, n) == [i \in 1..(n * Len(s)) |-> s[((i - 1) % Len(s)) + 1]]

\* Local parts: every string of up to MaxLocalLen characters, and locals
\* whose filtered length is 31, 32 and 33
HashLocals ==
    SeqsUpTo(HashAlphabet, MaxLocalLen)
        \cup {Repeat(<<"a", "1">>, 16),
              <<"-">> \o Repeat(<<"a", "1">>, 16) \o <<".">>,
              Repeat(<<"a", "1">>, 16) \o <<"2">>,
              Tail(Repeat(<<"a", "1">>, 16)),
              Repeat(<<"a", "1", "-">>, 16)}

HashDomains == {<<"d">>, <<"d", ".", "x">>, <<" ", "a", "d">>}

\* A header value of the form <local@domain>
MessageIdValue(local, domain) == <<"<">> \o local \o <<"@">> \o domain \o <<">">>

HashStart(local, domain) ==
    [pc |-> "value", local |-> local, domain |-> domain,
     value |-> MessageIdValue(local, domain),
     server |-> None, observer |-> None]

HashInit ==
    /\ PipelineInit
    /\ RunningInit
    /\ wire = WireStart(ServerLimits)
    /\ reader = ReaderStart
    /\ watcherUp
    /\ ExtInit
    /\ probe \in {HashStart(l, d) : l \in HashLocals, d \in HashDomains}

ProbeUnchanged ==
    UNCHANGED <<files, nextId, dropped, payloadOf, conn, hook, watcherUp,
                events, queue, scan, worker, procLog, dbOps, enqFailed, epoch,
                orphaned, srv, db, tx, wire, reader, ext>>

\* Both parsers are given the value
HashExtract ==
    /\ probe.pc = "value"
    /\ probe' = [probe EXCEPT
                   !.pc = "extracted",
                   !.server =
                       extract_hash_from_message_id_like_header(probe.value),
                   !.observer = cleanup_message_hash(probe.value)]
    /\ ProbeUnchanged

HashSpec == HashInit /\ [][HashExtract]_vars

\* C33: hash normalization.  For a value <local@domain> the server parser
\* returns a hash iff the alphanumeric characters of local are not empty,
\* the observer parser iff they are exactly 32, and the hash returned is
\* those characters.
C33_HashNormalization ==
    (probe.pc = "extracted") =>
        LET filtered == alphanumeric_only(probe.local)
        IN  /\ probe.server.some <=> filtered # <<>>
            /\ probe.server.some => probe.server.val = filtered
            /\ probe.observer.some <=> Len(filtered) = 32
            /\ probe.observer.some => probe.observer.val = filtered

----------------------------------------------------------------------------
\* The bounce parser on structured mails: a mail is its top-level header
\* lines and its MIME parts, a part is its mime type and the logical lines
\* of its decoded text, a line is a header name and a value.

\* MIME parts in one mail
MaxParts == 2

U8_MAX == 255
MAX_STATUS_CODE_LEN == 20
MIN_STATUS_TOKEN_LEN == 5

HeaderLine(name, value) == [name |-> name, value |-> value]

MimePart(mime, lines) == [mime |-> mime, lines |-> lines]

should_scan_attachment_mime(mime) ==
    mime \in {"message/delivery-status", "message/rfc822",
              "text/rfc822-headers", "text/plain"}

classify_attachment_kind(mime) ==
    IF mime = "message/delivery-status" THEN "DeliveryStatus"
    ELSE IF mime = "text/rfc822-headers" THEN "OriginalHeaders"
    ELSE IF mime = "message/rfc822" THEN "OriginalMessage"
    ELSE IF mime = "text/plain" THEN "TextBody"
    ELSE "Other"

\* looks_like_delivery_report: one of the markers occurs in the text
looks_like_delivery_report(lines) ==
    \E i \in DOMAIN lines :
        \/ lines[i].name \in {"Final-Recipient", "Original-Recipient",
                              "Diagnostic-Code"}
        \/ lines[i].value \in {<<"report-type=delivery-status">>,
                               <<"undelivered">>, <<"returned mail">>}

attachment_scan_priority(kind, lines) ==
    IF kind = "DeliveryStatus" THEN 0
    ELSE IF kind = "OriginalHeaders" THEN 1
    ELSE IF kind = "OriginalMessage" THEN 2
    ELSE IF kind = "TextBody"
    THEN IF looks_like_delivery_report(lines) THEN 3 ELSE 4
    ELSE IF looks_like_delivery_report(lines) THEN 4 ELSE 5

ScanCandidate(part) ==
    [kind |-> classify_attachment_kind(part.mime),
     text |-> part.lines,
     priority |-> attachment_scan_priority(
                      classify_attachment_kind(part.mime), part.lines)]

RECURSIVE Concat(_)
Concat(ss) == IF ss = <<>> THEN <<>> ELSE Head(ss) \o Concat(Tail(ss))

\* collect_attachment_text_candidates: the scannable parts with text, in a
\* stable sort by priority
collect_attachment_text_candidates(mail) ==
    LET all == [i \in DOMAIN mail.parts |-> ScanCandidate(mail.parts[i])]
        kept == SelectSeq(all, LAMBDA c : c.text # <<>> /\ c.kind # "Other")
    IN  Concat([p \in 1..6 |->
                   SelectSeq(kept, LAMBDA c : c.priority = p - 1)])

\* full_message_text: the raw mail, top-level headers first
full_message_text(mail) ==
    mail.top \o Concat([i \in DOMAIN mail.parts |-> mail.parts[i].lines])

is_ascii_digit(ch) ==
    ch \in {"0", "1", "2", "3", "4", "5", "6", "7", "8", "9"}

is_valid_status_code(code) ==
    /\ code # <<>>
    /\ Len(code) <= MAX_STATUS_CODE_LEN
    /\ \A i \in DOMAIN code : is_ascii_digit(code[i]) \/ code[i] = "."

parse_status_code(value) ==
    IF is_valid_status_code(value) THEN Some(value) ELSE None

\* find_status_code_in_text: the first token of digits and dots that is an
\* enhanced status code of class 2, 4 or 5
find_status_code_in_text(lines) ==
    LET hit(v) == /\ Len(v) >= MIN_STATUS_TOKEN_LEN
                  /\ Cardinality({i \in DOMAIN v : v[i] = "."}) >= 2
                  /\ is_valid_status_code(v)
                  /\ v[1] \in {"2", "4", "5"} /\ v[2] = "."
    IN  IF \E i \in DOMAIN lines : hit(lines[i].value)
        THEN Some(lines[CHOOSE i \in DOMAIN lines :
                            /\ hit(lines[i].value)
                            /\ \A j \in 1..(i - 1) : ~hit(lines[j].value)
                       ].value)
        ELSE None

hash_header_priority(header_name) ==
    IF header_name = "X-Message-Id" THEN 0
    ELSE IF header_name = "X-MS-Exchange-Parent-Message-Id" THEN 1
    ELSE IF header_name = "In-Reply-To" THEN 2
    ELSE IF header_name = "References" THEN 3
    ELSE IF header_name = "Message-ID" THEN 4
    ELSE 10

HashHeaders ==
    {"X-Message-Id", "X-MS-Exchange-Parent-Message-Id", "In-Reply-To",
     "References", "Message-ID"}

ParsedFieldsDefault ==
    [hash |-> None, hash_priority |-> U8_MAX, status_code |-> None,
     action |-> None, recipient |-> None, description |-> None]

try_set_hash_from_header(parsed, line) ==
    IF line.name \notin HashHeaders THEN parsed
    ELSE IF ~extract_hash_from_message_id_like_header(line.value).some
    THEN parsed
    ELSE IF parsed.hash.some
            /\ parsed.hash_priority <= hash_header_priority(line.name)
    THEN parsed
    ELSE [parsed EXCEPT
            !.hash = extract_hash_from_message_id_like_header(line.value),
            !.hash_priority = hash_header_priority(line.name)]

apply_header_line(parsed, line) ==
    LET h == try_set_hash_from_header(parsed, line)
    IN  [h EXCEPT
           !.status_code = IF ~@.some /\ line.name = "Status"
                           THEN parse_status_code(line.value) ELSE @,
           !.action = IF ~@.some /\ line.name = "Action" /\ line.value # <<>>
                      THEN Some(line.value) ELSE @,
           !.recipient =
               IF ~@.some /\ line.value # <<>>
                  /\ line.name \in {"Original-Recipient", "Final-Recipient"}
               THEN Some(line.value) ELSE @,
           !.description =
               IF ~@.some /\ line.name = "Diagnostic-Code"
                  /\ line.value # <<>>
               THEN Some(line.value) ELSE @]

RECURSIVE scan_lines(_, _)
\* The loop of parse_fields_from_text, with its lazy stop
scan_lines(parsed, lines) ==
    IF lines = <<>> THEN parsed
    ELSE IF parsed.hash.some /\ parsed.status_code.some THEN parsed
    ELSE CHOOSE result \in
             {scan_lines(applied, Tail(lines)) :
                 applied \in {apply_header_line(parsed, Head(lines))}} : TRUE

parse_fields_from_text(lines) == scan_lines(ParsedFieldsDefault, lines)

merge_missing(target, source) ==
    LET take == /\ source.hash.some
                /\ \/ ~target.hash.some
                   \/ source.hash_priority < target.hash_priority
    IN  [hash |-> IF take THEN source.hash ELSE target.hash,
         hash_priority |-> IF take THEN source.hash_priority
                           ELSE target.hash_priority,
         status_code |-> IF target.status_code.some THEN target.status_code
                         ELSE source.status_code,
         action |-> IF target.action.some THEN target.action
                    ELSE source.action,
         recipient |-> IF target.recipient.some THEN target.recipient
                       ELSE source.recipient,
         description |-> IF target.description.some THEN target.description
                         ELSE source.description]

without_hash(parsed) ==
    [parsed EXCEPT !.hash = None, !.hash_priority = U8_MAX]

\* constrain_hash_source that lets every kind of part supply the hash
constrain_hash_source_any(parsed, kind) == parsed

constrain_hash_source(parsed, kind) ==
    IF kind \notin {"OriginalHeaders", "OriginalMessage"}
    THEN without_hash(parsed)
    ELSE parsed

RECURSIVE typed_scan(_, _)
\* The first loop over the candidates: a delivery-status part gives no
\* hash, an original part gives only the hash, text bodies are skipped
typed_scan(merged, candidates) ==
    IF candidates = <<>> THEN merged
    ELSE IF Head(candidates).kind \in {"TextBody", "Other"}
    THEN typed_scan(merged, Tail(candidates))
    ELSE CHOOSE result \in
             {IF next.hash.some /\ next.status_code.some THEN next
              ELSE typed_scan(next, Tail(candidates)) :
                 next \in
                    {IF Head(candidates).kind = "DeliveryStatus"
                     THEN merge_missing(merged, without_hash(parsed))
                     ELSE merge_missing(merged,
                              [parsed EXCEPT !.status_code = None,
                                             !.action = None,
                                             !.recipient = None,
                                             !.description = None]) :
                        parsed \in {parse_fields_from_text(
                                        Head(candidates).text)}}} : TRUE

RECURSIVE fallback_scan(_, _)
\* The second loop over the candidates
fallback_scan(merged, candidates) ==
    IF candidates = <<>> THEN merged
    ELSE CHOOSE result \in
             {IF next.hash.some /\ next.status_code.some THEN next
              ELSE fallback_scan(next, Tail(candidates)) :
                 next \in
                    {merge_missing(merged, constrained) :
                        constrained \in
                           {constrain_hash_source(
                                parse_fields_from_text(Head(candidates).text),
                                Head(candidates).kind)}}} : TRUE

\* The status code looked for in the candidates' text, then in the mail
status_code_anywhere(mail, candidates) ==
    LET texts == Concat([i \in DOMAIN candidates |-> candidates[i].text])
    IN  IF find_status_code_in_text(texts).some
        THEN find_status_code_in_text(texts)
        ELSE find_status_code_in_text(full_message_text(mail))

\* The end of parse_bounce_report_detailed with the two checks swapped
parser_result_status_first(merged) ==
    IF ~merged.status_code.some
    THEN [tag |-> "MissingStatusCode", parsed |-> <<>>]
    ELSE IF ~merged.hash.some THEN [tag |-> "MissingHash", parsed |-> <<>>]
    ELSE [tag |-> "Ok",
          parsed |-> <<ParsedBounce(merged.hash.val, merged.status_code.val,
                                    merged.action, merged.recipient,
                                    merged.description)>>]

\* The end of parse_bounce_report_detailed: MissingHash before
\* MissingStatusCode
parser_result(merged) ==
    IF ~merged.hash.some THEN [tag |-> "MissingHash", parsed |-> <<>>]
    ELSE IF ~merged.status_code.some
    THEN [tag |-> "MissingStatusCode", parsed |-> <<>>]
    ELSE [tag |-> "Ok",
          parsed |-> <<ParsedBounce(merged.hash.val, merged.status_code.val,
                                    merged.action, merged.recipient,
                                    merged.description)>>]

\* The passes of parse_bounce_report_detailed after the check for a report
merge_passes(mail, candidates) ==
    CHOOSE merged \in
        {IF full.status_code.some THEN full
         ELSE [full EXCEPT !.status_code =
                   status_code_anywhere(mail, candidates)] :
            full \in
               {IF fallen.status_code.some THEN fallen
                ELSE merge_missing(fallen, text_fields) :
                   fallen \in
                      {IF typed.hash.some /\ typed.status_code.some
                       THEN typed
                       ELSE fallback_scan(typed, candidates) :
                          typed \in {typed_scan(ParsedFieldsDefault,
                                                candidates)}},
                   text_fields \in
                      {without_hash(parse_fields_from_text(
                                        full_message_text(mail)))}}} : TRUE

\* parse_bounce_report_detailed on a structured mail
parse_mail(mail) ==
    CHOOSE result \in
        {IF ~(\/ \E i \in DOMAIN candidates :
                    \/ candidates[i].kind = "DeliveryStatus"
                    \/ looks_like_delivery_report(candidates[i].text)
              \/ looks_like_delivery_report(full_message_text(mail)))
         THEN [tag |-> "NotDeliveryReport", parsed |-> <<>>]
         ELSE parser_result(merge_passes(mail, candidates)) :
            candidates \in {collect_attachment_text_candidates(mail)}} : TRUE

MsgId(x) == MessageIdValue(<<x>>, <<"d">>)

EnhancedCode(class, subject, detail) == <<class, ".", subject, ".", detail>>

\* The parts a mail is built from: delivery-status parts with and without
\* a status and with a Message-ID of their own, original sections with and
\* without hash headers, text bodies, and an attachment that is not scanned
MailParts ==
    {MimePart("message/delivery-status",
              <<HeaderLine("Final-Recipient", <<"rcpt">>),
                HeaderLine("Action", <<"failed">>),
                HeaderLine("Status", EnhancedCode("5", "1", "1"))>>),
     MimePart("message/delivery-status",
              <<HeaderLine("Message-ID", MsgId("2")),
                HeaderLine("Status", EnhancedCode("5", "1", "1"))>>),
     MimePart("message/delivery-status",
              <<HeaderLine("Action", <<"failed">>)>>),
     MimePart("text/rfc822-headers",
              <<HeaderLine("Message-ID", MsgId("a"))>>),
     MimePart("text/rfc822-headers",
              <<HeaderLine("Message-ID", MsgId("a")),
                HeaderLine("X-Message-Id", MsgId("b"))>>),
     MimePart("message/rfc822",
              <<HeaderLine("Subject", <<"hello">>),
                HeaderLine("In-Reply-To", MsgId("c"))>>),
     MimePart("text/rfc822-headers",
              <<HeaderLine("Subject", <<"hello">>)>>),
     MimePart("text/plain",
              <<HeaderLine("Message-ID", MsgId("3")),
                HeaderLine("Diagnostic-Code", EnhancedCode("5", "7", "1"))>>),
     MimePart("text/plain",
              <<HeaderLine("Subject", <<"hello">>)>>),
     MimePart("application/pdf",
              <<HeaderLine("Message-ID", MsgId("4"))>>)}

\* The top-level headers of a mail: always a Message-ID of the mail itself
MailTops ==
    {<<HeaderLine("Message-ID", MsgId("1")),
       HeaderLine("Subject", <<"hello">>)>>,
     <<HeaderLine("Message-ID", MsgId("1")),
       HeaderLine("Content-Type", <<"report-type=delivery-status">>)>>,
     <<HeaderLine("Subject", <<"undelivered">>),
       HeaderLine("Message-ID", MsgId("1"))>>,
     <<HeaderLine("Message-ID", MsgId("1")),
       HeaderLine("Status", EnhancedCode("5", "0", "0")),
       HeaderLine("Subject", <<"returned mail">>)>>}

Mails ==
    {[top |-> t, parts |-> ps] :
        t \in MailTops,
        ps \in UNION {[1..n -> MailParts] : n \in 0..MaxParts}}

ParserInit ==
    /\ PipelineInit
    /\ RunningInit
    /\ wire = WireStart(ServerLimits)
    /\ reader = ReaderStart
    /\ watcherUp
    /\ ExtInit
    /\ probe \in {[pc |-> "mail", mail |-> m,
                   result |-> [tag |-> "none", parsed |-> <<>>]] : m \in Mails}

\* The parser is given the mail
ParseMail ==
    /\ probe.pc = "mail"
    /\ probe' = [probe EXCEPT !.pc = "parsed",
                              !.result = parse_mail(probe.mail)]
    /\ ProbeUnchanged

ParserSpec == ParserInit /\ [][ParseMail]_vars

OriginalMimes == {"text/rfc822-headers", "message/rfc822"}

\* The hashes that the hash headers of a mail's original sections carry
OriginalSectionHashes(mail) ==
    {extract_hash_from_message_id_like_header(
         mail.parts[i].lines[j].value).val :
        <<i, j>> \in {<<i, j>> \in (DOMAIN mail.parts) \X (1..4) :
            /\ mail.parts[i].mime \in OriginalMimes
            /\ j \in DOMAIN mail.parts[i].lines
            /\ mail.parts[i].lines[j].name \in HashHeaders
            /\ extract_hash_from_message_id_like_header(
                   mail.parts[i].lines[j].value).some}}

HasOriginalSection(mail) ==
    \E i \in DOMAIN mail.parts : mail.parts[i].mime \in OriginalMimes

\* C31: hash source restriction.  The hash of a parsed bounce is one that a
\* hash header of an original-headers or original-message part carries,
\* never one of the delivery-status part, of a text body, of another
\* attachment or of the top-level headers; a bounce report without an
\* original section ends in MissingHash.
C31_HashSourceRestriction ==
    (probe.pc = "parsed") =>
        /\ probe.result.tag = "Ok" =>
               probe.result.parsed[1].hash
                   \in OriginalSectionHashes(probe.mail)
        /\ (probe.result.tag # "NotDeliveryReport"
            /\ ~HasOriginalSection(probe.mail)) =>
               probe.result.tag = "MissingHash"

\* A delivery-status part with a Message-ID of its own and a status came
\* first, and the hash is the one of the original headers behind it
C31_Witness ==
    /\ probe.pc = "parsed"
    /\ probe.result.tag = "Ok"
    /\ Len(probe.mail.parts) = 2
    /\ probe.mail.parts[1].mime = "message/delivery-status"
    /\ probe.mail.parts[1].lines[1].name = "Message-ID"
    /\ probe.mail.parts[2].mime = "text/rfc822-headers"
    /\ probe.result.parsed[1].hash = <<"a">>

IsDeliveryReport(mail) ==
    \/ \E i \in DOMAIN mail.parts :
           mail.parts[i].mime = "message/delivery-status"
    \/ looks_like_delivery_report(full_message_text(mail))

StatusAvailable(mail) ==
    \E i \in DOMAIN full_message_text(mail) :
        LET line == full_message_text(mail)[i]
        IN  \/ line.name = "Status" /\ is_valid_status_code(line.value)
            \/ find_status_code_in_text(<<line>>).some

\* C32: parser error precedence.  A mail that is no delivery report is
\* NotDeliveryReport; a report without a hash is MissingHash, also when the
\* status is missing as well; a report with a hash and no status is
\* MissingStatusCode; every other report is parsed.
C32_ParserErrorPrecedence ==
    (probe.pc = "parsed") =>
        probe.result.tag =
            IF ~IsDeliveryReport(probe.mail) THEN "NotDeliveryReport"
            ELSE IF OriginalSectionHashes(probe.mail) = {} THEN "MissingHash"
            ELSE IF ~StatusAvailable(probe.mail) THEN "MissingStatusCode"
            ELSE "Ok"

\* A report in which both the hash and the status are missing
C32_Witness ==
    /\ probe.pc = "parsed"
    /\ IsDeliveryReport(probe.mail)
    /\ OriginalSectionHashes(probe.mail) = {}
    /\ ~StatusAvailable(probe.mail)
    /\ probe.result.tag = "MissingHash"

----------------------------------------------------------------------------
\* An smtp log line on its way from the observer's parser to the status of
\* the linked message in the database.

HandoffRelayTexts ==
    {<<"m", "x", "b", "g">>, <<"M", "X", "b", "g", "[", "1", "]">>}

OtherRelayTexts ==
    {<<"o", "x">>, <<"m", "x", "b", "g", "o">>, <<"[", "1", "]">>}

RelayLines ==
    {LogLine(TRUE, SmtpWord, Q1, None, Some(<<"r">>), Some(status), dsn,
             relay) :
        status \in {SentWord, <<"S", "e", "n", "t">>, Deferred, Bounced},
        dsn \in {None, Some(Code("2", "0", "0")), Some(Code("4", "4", "1")),
                 Some(Code("5", "1", "1")), Some(Code("5", "7", "1"))},
        relay \in {None} \cup {Some(t) : t \in HandoffRelayTexts
                                              \cup OtherRelayTexts}}

RelayInit ==
    /\ PipelineInit
    /\ RunningInit
    /\ wire = WireStart(ServerLimits)
    /\ reader = ReaderStart
    /\ watcherUp
    /\ ExtInit
    /\ probe \in {[pc |-> "line", line |-> l, event |-> <<>>, db |-> DbStart] :
                     l \in RelayLines}

\* The observer parses the line and joins it with the hash that the
\* cleanup line of the same queue id gave
RelayObserve ==
    /\ probe.pc = "line"
    /\ parse_postfix_line(probe.line).kind = "Smtp"
    /\ probe' = [probe EXCEPT
                   !.pc = "event",
                   !.event = <<DeliveryEvent(QueueEntry("h1", 0),
                                   parse_postfix_line(probe.line).smtp)>>]
    /\ ProbeUnchanged

\* The server applies the event
RelayApply ==
    /\ probe.pc = "event"
    /\ probe' = [probe EXCEPT
                   !.pc = "applied",
                   !.db = apply_observer_event(probe.db, probe.event[1]).db]
    /\ ProbeUnchanged

RelaySpec == RelayInit /\ [][RelayObserve \/ RelayApply]_vars

LinkedStatus(d) == (CHOOSE m \in d.mail_messages : m.hash = "h1").status

\* C34: a handoff relay is never a delivery.  status=sent with the handoff
\* relay gives the action delayed, the code 4.0.0 when the line has no dsn,
\* and the linked message becomes PENDING whatever the dsn says; status=sent
\* with another relay or none gives delivered and SUCCESS.
C34_HandoffNeverDelivery ==
    (probe.pc = "applied"
     /\ str_to_ascii_lowercase(probe.line.status.val) = SentWord) =>
        IF probe.line.relay \in {Some(t) : t \in HandoffRelayTexts}
        THEN /\ probe.event[1].action = Delayed
             /\ ~probe.line.dsn.some =>
                    probe.event[1].status_code = Code("4", "0", "0")
             /\ LinkedStatus(probe.db) = MAIL_STATUS_PENDING
        ELSE /\ probe.event[1].action = Delivered
             /\ LinkedStatus(probe.db) = MAIL_STATUS_SUCCESS

\* Sent to the handoff relay with dsn=2.0.0: the message is pending
C34_Witness ==
    /\ probe.pc = "applied"
    /\ probe.line.status = Some(<<"S", "e", "n", "t">>)
    /\ probe.line.relay = Some(<<"M", "X", "b", "g", "[", "1", "]">>)
    /\ probe.line.dsn = Some(Code("2", "0", "0"))
    /\ LinkedStatus(probe.db) = MAIL_STATUS_PENDING

----------------------------------------------------------------------------
\* The dispatcher's workers and the terminal directories

InDir(d) == {f \in files : f.dir = d}

MaxBacklog == 3

BacklogData == <<<<"D", "O">>, <<"D">>, <<>>, <<"D", "O">>, <<"D">>, <<>>>>

Backlog ==
    {[dir |-> "incoming", name |-> SpoolFileName(i), data |-> BacklogData[i],
      synced |-> TRUE] : i \in 1..MaxBacklog}

\* The server starts on a spool that already holds mails, of which no
\* notification will ever tell
BacklogInit ==
    /\ files = Backlog
    /\ nextId = 0
    /\ dropped = {}
    /\ payloadOf = [i \in Ids |-> <<>>]
    /\ procLog = {}
    /\ dbOps = 0
    /\ enqFailed = {}
    /\ epoch = 0
    /\ orphaned = {}
    /\ MemoryInit
    /\ db = DbStart
    /\ tx = [t \in Tasks |-> TxIdle]
    /\ RunningInit
    /\ wire = WireStart(ServerLimits)
    /\ reader = ReaderStart
    /\ probe = NoProbe
    /\ ExtInit

NextDispatcher ==
    \/ NotifyWatcher
    \/ ScanTick
    \/ ScanPush
    \/ \E w \in Workers : WorkerRecv(w)
    \/ \E w \in Workers : WorkerClaim(w)
    \/ \E w \in Workers : WorkerProcess(w)
    \/ \E w \in Workers : WorkerFinalize(w)
    \/ \E w \in Workers : WorkerWarn(w)

BacklogSpec == BacklogInit /\ [][NextDispatcher]_vars

\* The files a worker has claimed and not yet moved on
InFlightFiles ==
    {f \in InDir("processing") :
        \E w \in Workers : Holding(w) /\ worker[w].path = f.name}

\* C36: bounded worker concurrency.  There are max(worker_concurrency, 1)
\* workers; a path leaves the channel only at its head and into exactly one
\* worker, which was waiting and now holds that path, and the channel
\* otherwise only grows at its tail; a file enters processing/ only with
\* the claim of one worker, and at most max(worker_concurrency, 1) files
\* are between their claim rename and their terminal rename.
C36_BoundedWorkers ==
    /\ [](/\ Cardinality(DOMAIN worker) = Max(WorkerConcurrency, 1)
          /\ Cardinality({w \in DOMAIN worker : Holding(w)})
                <= Max(WorkerConcurrency, 1)
          /\ Cardinality(InFlightFiles) <= Max(WorkerConcurrency, 1))
    /\ [][/\ queue' # queue =>
               \/ \E n \in {f.name : f \in files} \cup events :
                     queue' = Append(queue, n)
               \/ /\ queue # <<>>
                  /\ queue' = Tail(queue)
                  /\ \E w \in DOMAIN worker :
                       /\ worker[w].pc = "recv"
                       /\ worker'[w].pc = "claim"
                       /\ worker'[w].path = Head(queue)
                       /\ \A v \in DOMAIN worker \ {w} :
                            worker'[v] = worker[v]
          /\ \A w \in DOMAIN worker :
               (worker[w].pc = "recv" /\ worker'[w].pc # "recv") =>
                   queue # <<>> /\ queue' = Tail(queue)
          /\ Cardinality({f \in files' : f.dir = "processing"})
                > Cardinality(InDir("processing")) =>
                \E w \in DOMAIN worker :
                   /\ worker[w].pc = "claim"
                   /\ worker'[w].pc = "process"
                   /\ Exists(files', "processing", worker[w].path)
                   /\ ~Exists(files, "processing", worker[w].path)
       ]_vars

\* C36 witness: every worker holds a file of its own while another file
\* waits in incoming/ and its path waits in the channel
C36_Witness ==
    /\ \A w \in Workers : Holding(w)
    /\ Cardinality(InFlightFiles) = Max(WorkerConcurrency, 1)
    /\ InDir("incoming") # {}
    /\ queue # <<>>

SpoolNames == {f.name : f \in files}

DirOf(fsys, n) == (CHOOSE f \in fsys : f.name = n).dir

\* C37: the spool lifecycle is monotone.  A spool file changes its
\* directory only from incoming/ to processing/ and from processing/ to
\* done/ or failed/; no file appears or disappears; a file in done/ or
\* failed/ is held by no worker; and no file is processed twice.
C37_MonotoneLifecycle ==
    /\ [](/\ \A w \in Workers :
               Holding(w) =>
                   /\ ~Exists(files, "done", worker[w].path)
                   /\ ~Exists(files, "failed", worker[w].path)
          /\ \A e \in procLog : e.ord = 1)
    /\ [][/\ {f.name : f \in files'} = SpoolNames
          /\ \A n \in SpoolNames :
               /\ Cardinality({f \in files' : f.name = n}) = 1
               /\ DirOf(files', n) # DirOf(files, n) =>
                    <<DirOf(files, n), DirOf(files', n)>> \in
                        {<<"incoming", "processing">>,
                         <<"processing", "done">>,
                         <<"processing", "failed">>}
       ]_vars

\* C37 witness: a file is in done/ and another in failed/ while a worker
\* that drew the path of one of them again is about to try its rename
C37_Witness ==
    /\ InDir("done") # {}
    /\ InDir("failed") # {}
    /\ \E w \in Workers :
         /\ worker[w].pc = "claim"
         /\ \E f \in InDir("done") \cup InDir("failed") :
              f.name = worker[w].path

----------------------------------------------------------------------------
\* The spool in runs without I/O errors, with its scheduling: the interval
\* of the scan keeps ticking, a blocked send into the channel is served when
\* there is room, every worker task keeps being polled.

\* No rename and no read of a worker fails in this step
NoIoError ==
    \A w \in Workers :
        /\ ~(worker[w].pc = "claim" /\ worker'[w].pc = "warn")
        /\ worker'[w].result # "read failed"
        /\ ~(/\ worker[w].pc = "finalize"
             /\ worker'[w] # worker[w]
             /\ files' = files)

QuietNext ==
    \/ HookStart /\ NoIoError
    \/ HookWrite /\ NoIoError
    \/ HookSync /\ NoIoError
    \/ HookRename /\ NoIoError
    \/ NotifyWatcher /\ NoIoError
    \/ ScanTick /\ NoIoError
    \/ ScanPush /\ NoIoError
    \/ \E w \in Workers : WorkerRecv(w) /\ NoIoError
    \/ \E w \in Workers : WorkerClaim(w) /\ NoIoError
    \/ \E w \in Workers : WorkerProcess(w) /\ NoIoError
    \/ \E w \in Workers : WorkerFinalize(w) /\ NoIoError
    \/ \E w \in Workers : WorkerWarn(w) /\ NoIoError

SpoolFairness ==
    /\ WF_vars(ScanTick /\ scan'.pc = "push")
    /\ WF_vars(ScanPush)
    /\ \A w \in Workers :
         /\ WF_vars(WorkerRecv(w))
         /\ WF_vars(WorkerClaim(w) /\ NoIoError)
         /\ WF_vars(WorkerProcess(w) /\ NoIoError)
         /\ WF_vars(WorkerFinalize(w) /\ NoIoError)
         /\ WF_vars(WorkerWarn(w))

SpoolFairSpec == Init /\ [][QuietNext]_vars /\ SpoolFairness

C40_WatcherStopsOnClosedQueue ==
    [][(/\ sd.main # "idle"
        /\ sd.daemon = "server"
        /\ sd.task["watcher"] = "send"
        /\ ~RxOpen(sd)
        /\ sd'.task["watcher"] # "send"
        /\ sd'.task["watcher"] # "aborted")
           => sd'.task["watcher"] = "returned"]_vars

----------------------------------------------------------------------------
\* run_imap_poll_loop: one poll after the other on a mailbox that keeps
\* its \Seen flags.  A uid is the position of the mail in the mailbox.

RECURSIVE SortDescending(_)
SortDescending(uids) ==
    IF uids = {} THEN <<>>
    ELSE LET top == CHOOSE u \in uids : \A v \in uids : v <= u
         IN  <<top>> \o SortDescending(uids \ {top})

\* UID SEARCH UNSEEN; uids.sort_unstable_by(|a, b| b.cmp(a));
\* uids.truncate(max_messages)
select_unseen(unseen, max_messages) ==
    LET sorted == SortDescending(unseen)
    IN  SubSeq(sorted, 1, Min(Len(sorted), Max(max_messages, 1)))

PollStart(mails, max_messages, mark_seen) ==
    [mails |-> mails, max_messages_per_poll |-> max_messages,
     mark_seen_if_not_exist |-> mark_seen,
     pc |-> "tick", seen |-> {}, uids |-> <<>>, next |-> 1,
     seen_uids |-> {}, fetched |-> {}, ret |-> "none"]

PollInit ==
    /\ PipelineInit
    /\ RunningInit
    /\ wire = WireStart(ServerLimits)
    /\ reader = ReaderStart
    /\ probe = NoProbe
    /\ watcherUp
    /\ imap \in {PollStart(m, k, f) :
                    m \in UNION {[1..n -> ImapMails] : n \in 1..MaxUids},
                    k \in 1..MaxUids, f \in BOOLEAN}
    /\ obs = ObsIdle
    /\ pub = PubIdle
    /\ sd = SdIdle

Unseen == DOMAIN imap.mails \ imap.seen

\* The database after a poll's transaction: its clock NOW() is followed for
\* MaxTx commits and stands still from then on
AfterPollTx(d) == [d EXCEPT !.now = Min(d.now, MaxTx)]

\* ticker.tick(): open the session, SELECT, UID SEARCH UNSEEN, sort,
\* truncate, UID FETCH
PollSelect ==
    /\ imap.pc = "tick"
    /\ \E ok \in BOOLEAN :
         LET uids == select_unseen(Unseen, imap.max_messages_per_poll) IN
         imap' = IF ~ok THEN [imap EXCEPT !.ret = "Err"]
                 ELSE IF uids = <<>> THEN [imap EXCEPT !.ret = "Ok"]
                 ELSE [imap EXCEPT !.pc = "fetch", !.uids = uids,
                                   !.next = 1, !.seen_uids = {},
                                   !.ret = "none"]
    /\ UNCHANGED db
    /\ ImapUnchanged

\* One selected message is fetched, processed and its result collected
PollProcess ==
    /\ imap.pc = "fetch"
    /\ imap.next <= Len(imap.uids)
    /\ \E fetchOk \in BOOLEAN, dbOk \in BOOLEAN :
         LET uid == imap.uids[imap.next]
             r == process_fetched_message(imap.mails[uid], db, dbOk)
         IN  IF ~fetchOk
             THEN /\ imap' = [imap EXCEPT !.pc = "tick", !.ret = "Err"]
                  /\ UNCHANGED db
             ELSE /\ db' = AfterPollTx(r.db)
                  /\ imap' = [imap EXCEPT
                        !.next = imap.next + 1,
                        !.fetched = imap.fetched \cup {uid},
                        !.seen_uids =
                            IF collect_marks(r.result,
                                             imap.mark_seen_if_not_exist)
                            THEN imap.seen_uids \cup {uid}
                            ELSE imap.seen_uids]
    /\ ImapUnchanged

\* mark_seen_uids (UID STORE +FLAGS (\Seen)) when seen_uids is not empty,
\* logout, and the loop waits for the next tick
PollStore ==
    /\ imap.pc = "fetch"
    /\ imap.next > Len(imap.uids)
    /\ \E ok \in BOOLEAN :
         imap' = IF imap.seen_uids = {}
                 THEN [imap EXCEPT !.pc = "tick", !.ret = "Ok"]
                 ELSE IF ok
                 THEN [imap EXCEPT !.pc = "tick", !.ret = "Ok",
                                   !.seen = imap.seen \cup imap.seen_uids]
                 ELSE [imap EXCEPT !.pc = "tick", !.ret = "Err"]
    /\ UNCHANGED db
    /\ ImapUnchanged

\* run_imap_poll_once does not return an error
PollOk == imap'.ret # "Err"

NextPoll ==
    \/ PollSelect /\ PollOk
    \/ PollProcess /\ PollOk
    \/ PollStore /\ PollOk

\* Polls without I/O errors; the ticker keeps firing and every poll runs
\* to its end
PollFairSpec ==
    /\ PollInit
    /\ [][NextPoll]_vars
    /\ WF_vars(PollSelect /\ PollOk /\ imap'.pc = "fetch")
    /\ WF_vars(PollProcess /\ PollOk)
    /\ WF_vars(PollStore /\ PollOk)

\* C39: no IMAP starvation.  Every unseen message of the mailbox is
\* eventually selected and fetched by some poll.
C39_NoImapStarvation ==
    \A uid \in 1..MaxUids :
        (uid \in DOMAIN imap.mails /\ uid \notin imap.seen)
            ~> (uid \in imap.fetched)

====
